---------------------------- MODULE Spec2Model ----------------------------
(***************************************************************************)
(* Model of the ginkgo request pipeline (itsLeonB/ginkgo): the error       *)
(* middleware ("recovery guard") of error_middleware.go wrapped around the *)
(* downstream gin handlers of one request.                                 *)
(*                                                                         *)
(* Texts are sequences of tokens: strings.Contains(s, p) is "p is one of   *)
(* the tokens of s" and s == "EOF" is "s is the one token EOF".            *)
(***************************************************************************)
EXTENDS Integers, Sequences, FiniteSets, TLC

VARIABLES
    pc,        \* per request: where errorMiddleware.handle is
    ctx,       \* per request: the gin.Context (Errors, Writer, abort index)
    panicVal,  \* per request: the payload of the panic raised downstream
    log,       \* the logger's records, shared by all requests
    guard,     \* per request: what errorMiddleware.handle has done so far
    mw,        \* the middlewares built at startup and their configuration
    chain,     \* per request: the stages of the chain that ran, and with what
    call,      \* the call of a helper function: its arguments and its result
    hs         \* the HttpServer, its two goroutines and the process

vars == <<pc, ctx, panicVal, log, guard, mw, chain, call, hs>>

(***************************************************************************)
(* Bounds of the model.                                                    *)
(***************************************************************************)
MaxErrors == 2     \* entries downstream stages may record in ctx.Errors
MaxWrap == 2       \* layers of eris.Wrap around an error
MaxTokenLen == 2   \* characters after the scheme and its space in a header

Reqs == {"r1"}

Last(s) == s[Len(s)]

Contains(text, phrase) == \E i \in 1..Len(text) : text[i] = phrase

(***************************************************************************)
(* Error values.                                                           *)
(***************************************************************************)
NoErr == [kind |-> "nil"]

\* ungerr.AppError values: a status and the details given to the constructor
AppError(status, details) ==
    [kind |-> "ungerr.AppError", status |-> status, details |-> details]

BadRequestError(msg) == AppError(400, <<msg>>)

NotFoundError(msg) == AppError(404, <<msg>>)

ValidationError(errors) == AppError(422, errors)

InternalServerError == AppError(500, <<>>)

IsAppError(e) == e.kind = "ungerr.AppError"

\* errors.New(text)
ErrorString(text) == [kind |-> "errors.errorString", text |-> text]

\* the sentinel io.EOF
EOF == [kind |-> "io.EOF"]

SyntaxError == [kind |-> "json.SyntaxError"]

UnmarshalTypeError(field) == [kind |-> "json.UnmarshalTypeError", Field |-> field]

ValidationErrors(fieldErrors) ==
    [kind |-> "validator.ValidationErrors", fieldErrors |-> fieldErrors]

\* eris: a root error (with or without an external error) and a wrap layer
ErisRoot(msg, ext) == [kind |-> "eris.rootError", msg |-> msg, ext |-> ext]

ErisWrapError(msg, err) == [kind |-> "eris.wrapError", msg |-> msg, err |-> err]

IsEris(e) == e.kind \in {"eris.rootError", "eris.wrapError"}

\* eris.Errorf / eris.New: a root error without an external error
ErisErrorf(msg) == ErisRoot(msg, NoErr)

\* eris.Errorf(format, arg) with one %s in format: the message is the format
\* with arg in the place of %s
ErisErrorfArg(format, arg) ==
    [kind |-> "eris.rootError", msg |-> format, arg |-> arg, ext |-> NoErr]

\* the message of an eris error, without what it wraps
ErisMessage(e) == IF "arg" \in DOMAIN e THEN <<e.msg, e.arg>> ELSE <<e.msg>>

\* eris.Wrap: an external error becomes the ext of a new root error, an eris
\* error gets a wrap layer
ErisWrap(err, msg) ==
    IF IsEris(err) THEN ErisWrapError(msg, err) ELSE ErisRoot(msg, err)

\* eris.Unwrap: one call of the error's Unwrap method, nil without one
ErisUnwrap(e) ==
    CASE e.kind = "eris.rootError" -> e.ext
      [] e.kind = "eris.wrapError" -> e.err
      [] OTHER -> NoErr

RECURSIVE Flatten(_)
Flatten(ss) == IF ss = <<>> THEN <<>> ELSE Head(ss) \o Flatten(Tail(ss))

\* err.Error()
RECURSIVE ErrorText(_)
ErrorText(e) ==
    CASE e.kind = "ungerr.AppError" -> Flatten(e.details)
      [] e.kind = "errors.errorString" -> e.text
      [] e.kind = "io.EOF" -> <<"EOF">>
      [] e.kind = "json.SyntaxError" -> <<"invalid character">>
      [] e.kind = "json.UnmarshalTypeError" ->
            <<"json: cannot unmarshal into Go struct field", e.Field>>
      [] e.kind = "validator.ValidationErrors" -> Flatten(e.fieldErrors)
      [] e.kind = "eris.rootError" ->
            IF e.ext = NoErr THEN ErisMessage(e) ELSE ErisMessage(e) \o ErrorText(e.ext)
      [] e.kind = "eris.wrapError" -> ErisMessage(e) \o ErrorText(e.err)


(***************************************************************************)
(* Responses (JSONResponse) and the gin response writer.                   *)
(***************************************************************************)
\* NewResponse(message).WithData(data)
NewResponse(message, data) == [Message |-> message, Data |-> data, Errors |-> NoErr]

\* NewErrorResponse(err): the message is err.Error(), Errors is err itself
NewErrorResponse(err) == [Message |-> ErrorText(err), Data |-> "", Errors |-> err]

\* gin's responseWriter before anything is written
NewWriter == [written |-> FALSE, status |-> 200, body |-> <<>>]

\* ctx.JSON(code, obj): WriteHeader(code) is ignored once the response is
\* written, the body is written in any case. Each write keeps who made it
\* and whether the response was already written when it was made.
WriteJSON(w, code, obj, by) ==
    [written |-> TRUE,
     status |-> IF w.written THEN w.status ELSE code,
     body |-> Append(w.body, [by |-> by, code |-> code, obj |-> obj,
                              late |-> w.written])]

\* no attribute in ctx.Keys
NoKeys == [k \in {} |-> NoErr]

\* a fresh gin.Context: no error, nothing written, not aborted, no
\* Authorization header, no attribute; the request is a GET of "/"
NewContext ==
    [Errors |-> <<>>, Writer |-> NewWriter, aborted |-> FALSE,
     Authorization |-> <<>>, Keys |-> NoKeys,
     Method |-> "GET", Path |-> "/", RawQuery |-> ""]

\* ctx.AbortWithStatusJSON(code, obj) as called by the error middleware
AbortWithStatusJSON(c, code, obj) ==
    [c EXCEPT !.aborted = TRUE, !.Writer = WriteJSON(@, code, obj, "guard")]

(***************************************************************************)
(* Logger records: severity, which call it is, and the text it carries.    *)
(***************************************************************************)
LogError(tag, arg) == [sev |-> "error", tag |-> tag, arg |-> arg]

(***************************************************************************)
(* errorMiddleware: the classifier.                                        *)
(***************************************************************************)
\* logUnwrappedError without the record of err.Meta
logUnwrappedError_NoMeta(entry, c) ==
    [app |-> InternalServerError,
     logs |-> <<LogError("UNWRAPPED ERROR DETECTED", <<>>),
                LogError("Error type", <<entry.Err.kind>>),
                LogError("Error message", ErrorText(entry.Err)),
                LogError("Request", <<>>),
                LogError("Handler", <<>>),
                LogError("User-Agent", <<>>),
                LogError("Remote-Addr", <<>>),
                LogError("Stack trace from Gin error location:", <<>>),
                LogError("%+v", ErrorText(entry.Err))>>]

\* logUnwrappedError answering by the number of entries in the error list
logUnwrappedError_ByPosition(entry, c) ==
    [app |-> IF Len(c.Errors) > 1 THEN BadRequestError(<<"invalid input">>)
             ELSE InternalServerError,
     logs |-> <<LogError("UNWRAPPED ERROR DETECTED", <<>>)>>]

\* logUnwrappedError: eight or nine error records, then the masked error
logUnwrappedError(entry, c) ==
    [app |-> InternalServerError,
     logs |-> <<LogError("UNWRAPPED ERROR DETECTED", <<>>),
                LogError("Error type", <<entry.Err.kind>>),
                LogError("Error message", ErrorText(entry.Err)),
                LogError("Request", <<>>),
                LogError("Handler", <<>>),
                LogError("User-Agent", <<>>),
                LogError("Remote-Addr", <<>>)>>
              \o (IF entry.Meta THEN <<LogError("Error metadata", <<>>)>> ELSE <<>>)
              \o <<LogError("Stack trace from Gin error location:", <<>>),
                   LogError("%+v", ErrorText(entry.Err))>>]

\* logAndMaskError answering with the text of the error
logAndMaskError_Echo(err) ==
    [app |-> AppError(500, <<ErrorText(err)>>),
     logs |-> <<LogError("Unhandled eris-wrapped error of type", <<err.kind>>),
                LogError("Full stack trace:", <<>>),
                LogError("eris.ToString", ErrorText(err))>>]

\* logAndMaskError: three error records, then the masked error
logAndMaskError(err) ==
    [app |-> InternalServerError,
     logs |-> <<LogError("Unhandled eris-wrapped error of type", <<err.kind>>),
                LogError("Full stack trace:", <<>>),
                LogError("eris.ToString", ErrorText(err))>>]

\* the default branch of constructAppError's type switch: text patterns
classifyByText(originalErr, err) ==
    LET errStr == ErrorText(originalErr) IN
    IF originalErr = EOF \/ errStr = <<"EOF">>
    THEN [app |-> BadRequestError(<<"missing request body">>), logs |-> <<>>]
    ELSE IF Contains(errStr, "connection reset by peer")
            \/ Contains(errStr, "broken pipe")
    THEN [app |-> BadRequestError(<<"connection error">>), logs |-> <<>>]
    ELSE logAndMaskError(err)

\* constructAppError looking at the text before the type
constructAppError_TextFirst(entry, c) ==
    LET originalErr == ErisUnwrap(entry.Err) IN
    IF originalErr = NoErr THEN logUnwrappedError(entry, c)
    ELSE IF classifyByText(originalErr, entry.Err).app.status = 400
    THEN classifyByText(originalErr, entry.Err)
    ELSE CASE originalErr.kind = "validator.ValidationErrors" ->
                [app |-> ValidationError(originalErr.fieldErrors), logs |-> <<>>]
           [] originalErr.kind = "json.SyntaxError" ->
                [app |-> BadRequestError(<<"invalid json">>), logs |-> <<>>]
           [] originalErr.kind = "json.UnmarshalTypeError" ->
                [app |-> BadRequestError(<<"invalid value for field", originalErr.Field>>),
                 logs |-> <<>>]
           [] OTHER -> classifyByText(originalErr, entry.Err)

\* constructAppError: the AppError for a gin error entry that is no AppError,
\* and the records it logs on the way
constructAppError(entry, c) ==
    LET originalErr == ErisUnwrap(entry.Err) IN
    IF originalErr = NoErr THEN logUnwrappedError(entry, c)
    ELSE CASE originalErr.kind = "validator.ValidationErrors" ->
                [app |-> ValidationError(originalErr.fieldErrors), logs |-> <<>>]
           [] originalErr.kind = "json.SyntaxError" ->
                [app |-> BadRequestError(<<"invalid json">>), logs |-> <<>>]
           [] originalErr.kind = "json.UnmarshalTypeError" ->
                [app |-> BadRequestError(<<"invalid value for field", originalErr.Field>>),
                 logs |-> <<>>]
           [] OTHER -> classifyByText(originalErr, entry.Err)

(***************************************************************************)
(* errorMiddleware: panics.                                                *)
(***************************************************************************)
NoPanic == [ptype |-> "none"]

\* the records handlePanic logs for the kind of value that was panicked with
panicKindLogs(r) ==
    CASE r.ptype = "string" ->
            IF Contains(r.text, "index out of range")
               \/ Contains(r.text, "slice bounds out of range")
            THEN <<LogError("Array/slice bounds panic detected", <<>>)>>
            ELSE IF Contains(r.text, "nil pointer dereference")
            THEN <<LogError("Nil pointer dereference panic detected", <<>>)>>
            ELSE <<LogError("String panic", r.text)>>
      [] r.ptype = "runtime.Error" ->
            <<LogError("Runtime error panic", r.text)>>
            \o (CASE r.text = <<"runtime error: invalid memory address or nil pointer dereference">> ->
                        <<LogError("Nil pointer dereference detected", <<>>)>>
                  [] r.text = <<"runtime error: index out of range">> ->
                        <<LogError("Index out of range detected", <<>>)>>
                  [] r.text = <<"runtime error: slice bounds out of range">> ->
                        <<LogError("Slice bounds out of range detected", <<>>)>>
                  [] OTHER -> <<>>)
      [] OTHER -> <<LogError("Unknown panic type", r.text)>>

\* the records handlePanic logs before it looks at the response
panicLogs(r) ==
    <<LogError("PANIC RECOVERED in handler", <<>>),
      LogError("Request", <<>>),
      LogError("Handler", <<>>),
      LogError("Panic value", r.text),
      LogError("Panic type", <<r.ptype>>),
      LogError("User-Agent", <<>>),
      LogError("Remote-Addr", <<>>),
      LogError("Request has body: true", <<>>),
      LogError("Stack trace:", <<>>),
      LogError("debug.Stack", <<>>)>>
    \o panicKindLogs(r)

\* handlePanic writing with ctx.JSON: the request is not aborted
handlePanic_NoAbort(r, c) ==
    IF ~c.Writer.written
    THEN [ctx |-> [c EXCEPT !.Writer = WriteJSON(@, InternalServerError.status,
                                NewErrorResponse(InternalServerError), "guard")],
          logs |-> panicLogs(r),
          aborts |-> 0]
    ELSE [ctx |-> c,
          logs |-> panicLogs(r)
                   \o <<LogError("Response already written, cannot send error JSON", <<>>)>>,
          aborts |-> 0]

\* handlePanic without the check of ctx.Writer.Written()
handlePanic_NoWrittenCheck(r, c) ==
    [ctx |-> AbortWithStatusJSON(c, InternalServerError.status,
                                 NewErrorResponse(InternalServerError)),
     logs |-> panicLogs(r),
     aborts |-> 1]

\* handlePanic: logs the panic, then writes the masked error unless the
\* response is already written
handlePanic(r, c) ==
    IF ~c.Writer.written
    THEN [ctx |-> AbortWithStatusJSON(c, InternalServerError.status,
                                      NewErrorResponse(InternalServerError)),
          logs |-> panicLogs(r),
          aborts |-> 1]
    ELSE [ctx |-> c,
          logs |-> panicLogs(r)
                   \o <<LogError("Response already written, cannot send error JSON", <<>>)>>,
          aborts |-> 0]

\* a deferred function that logs nothing and never calls recover()
deferredRecover_NoRecover(r, c) ==
    [recovered |-> FALSE, ctx |-> c, logs |-> <<>>, aborts |-> 0]

\* a deferred function that answers with the last recorded error, if there
\* is one, before it looks at the panic
deferredRecover_ErrorsFirst(r, c) ==
    IF r # NoPanic /\ c.Errors # <<>> /\ ~c.Writer.written
    THEN LET e == Last(c.Errors)
             app == IF IsAppError(e.Err) THEN e.Err ELSE constructAppError(e, c).app
         IN  [recovered |-> TRUE,
              ctx |-> AbortWithStatusJSON(c, app.status, NewErrorResponse(app)),
              logs |-> panicLogs(r), aborts |-> 1]
    ELSE IF r # NoPanic
    THEN [recovered |-> TRUE] @@ handlePanic(r, c)
    ELSE [recovered |-> TRUE, ctx |-> c, logs |-> <<>>, aborts |-> 0]

\* the deferred function of handle: recover() stops the panic, and a non-nil
\* value goes to handlePanic
deferredRecover(r, c) ==
    IF r # NoPanic
    THEN [recovered |-> TRUE] @@ handlePanic(r, c)
    ELSE [recovered |-> TRUE, ctx |-> c, logs |-> <<>>, aborts |-> 0]

\* the response handle gives for the entry err of ctx.Errors
respond(c, err) ==
    IF IsAppError(err.Err)
    THEN [ctx |-> AbortWithStatusJSON(c, err.Err.status, NewErrorResponse(err.Err)),
          logs |-> <<>>, aborts |-> 1, classifies |-> 1]
    ELSE LET res == constructAppError(err, c) IN
         [ctx |-> AbortWithStatusJSON(c, res.app.status, NewErrorResponse(res.app)),
          logs |-> res.logs, aborts |-> 1, classifies |-> 1]

\* handle taking the first entry of ctx.Errors
afterNext_FirstWins(c) ==
    IF c.Errors = <<>>
    THEN [ctx |-> c, logs |-> <<>>, aborts |-> 0, classifies |-> 0]
    ELSE respond(c, Head(c.Errors))

\* handle without the check for ungerr.AppError
afterNext_NoPassThrough(c) ==
    IF c.Errors = <<>>
    THEN [ctx |-> c, logs |-> <<>>, aborts |-> 0, classifies |-> 0]
    ELSE LET res == constructAppError(Last(c.Errors), c) IN
         [ctx |-> AbortWithStatusJSON(c, res.app.status, NewErrorResponse(res.app)),
          logs |-> res.logs, aborts |-> 1, classifies |-> 1]

\* handle answering with the masked error when ctx.Errors is empty
afterNext_NoEmptyCheck(c) ==
    IF c.Errors = <<>>
    THEN [ctx |-> AbortWithStatusJSON(c, InternalServerError.status,
                                      NewErrorResponse(InternalServerError)),
          logs |-> <<>>, aborts |-> 1, classifies |-> 1]
    ELSE respond(c, Last(c.Errors))

\* handle after ctx.Next() has returned: the last entry of ctx.Errors, if
\* any, becomes the response
afterNext(c) ==
    IF c.Errors = <<>>
    THEN [ctx |-> c, logs |-> <<>>, aborts |-> 0, classifies |-> 0]
    ELSE respond(c, Last(c.Errors))

(***************************************************************************)
(* Token extraction (extract_token.go). A header value is a sequence of    *)
(* characters.                                                             *)
(***************************************************************************)
ErrMissingToken == "missing token"

ErrInvalidToken == "invalid token"

ErrUserNotFound == "user not found"

ErrNoPermission == "user does not have the required permission"

\* ungerr.UnauthorizedError(msg), ungerr.ForbiddenError(msg)
UnauthorizedError(msg) == AppError(401, <<msg>>)

ForbiddenError(msg) == AppError(403, <<msg>>)

\* strings.Split(s, " "): the parts between the spaces, one more than there
\* are spaces
RECURSIVE Split(_)
Split(s) ==
    IF \A i \in 1..Len(s) : s[i] # " " THEN <<s>>
    ELSE LET k == CHOOSE i \in 1..Len(s) :
                    s[i] = " " /\ \A j \in 1..(i - 1) : s[j] # " "
         IN  <<SubSeq(s, 1, k - 1)>> \o Split(SubSeq(s, k + 1, Len(s)))

LowerChar(ch) ==
    CASE ch = "B" -> "b"
      [] ch = "E" -> "e"
      [] ch = "A" -> "a"
      [] ch = "R" -> "r"
      [] OTHER -> ch

\* strings.ToLower leaving upper-case letters as they are
ToLower_Identity(s) == s

\* strings.ToLower
ToLower(s) == [i \in 1..Len(s) |-> LowerChar(s[i])]

\* subtle.ConstantTimeCompare(x, y) == 1
ConstantTimeCompare(x, y) == Len(x) = Len(y) /\ \A i \in 1..Len(x) : x[i] = y[i]

\* validateAndExtractBearerToken comparing the scheme with "Bearer" as written
validateAndExtractBearerToken_CaseSensitive(bearerToken) ==
    LET splits == Split(bearerToken) IN
    IF Len(splits) # 2 THEN [isValid |-> FALSE, token |-> <<>>]
    ELSE IF ~ConstantTimeCompare(splits[1], <<"B", "e", "a", "r", "e", "r">>)
    THEN [isValid |-> FALSE, token |-> <<>>]
    ELSE [isValid |-> TRUE, token |-> splits[2]]

\* validateAndExtractBearerToken taking the last of two or more parts
validateAndExtractBearerToken_LastPart(bearerToken) ==
    LET splits == Split(bearerToken) IN
    IF Len(splits) < 2 THEN [isValid |-> FALSE, token |-> <<>>]
    ELSE IF ~ConstantTimeCompare(ToLower(splits[1]), <<"b", "e", "a", "r", "e", "r">>)
    THEN [isValid |-> FALSE, token |-> <<>>]
    ELSE [isValid |-> TRUE, token |-> splits[Len(splits)]]

\* validateAndExtractBearerToken refusing an empty credential
validateAndExtractBearerToken_NoEmpty(bearerToken) ==
    LET splits == Split(bearerToken) IN
    IF Len(splits) # 2 \/ splits[Len(splits)] = <<>>
    THEN [isValid |-> FALSE, token |-> <<>>]
    ELSE IF ~ConstantTimeCompare(ToLower(splits[1]), <<"b", "e", "a", "r", "e", "r">>)
    THEN [isValid |-> FALSE, token |-> <<>>]
    ELSE [isValid |-> TRUE, token |-> splits[2]]

validateAndExtractBearerToken(bearerToken) ==
    LET splits == Split(bearerToken) IN
    IF Len(splits) # 2 THEN [isValid |-> FALSE, token |-> <<>>]
    ELSE IF ~ConstantTimeCompare(ToLower(splits[1]), <<"b", "e", "a", "r", "e", "r">>)
    THEN [isValid |-> FALSE, token |-> <<>>]
    ELSE [isValid |-> TRUE, token |-> splits[2]]

\* extractBearerToken reporting an empty header as invalid
extractBearerToken_EmptyInvalid(c) ==
    LET v == validateAndExtractBearerToken(c.Authorization) IN
    IF ~v.isValid THEN [token |-> <<>>, errMsg |-> ErrInvalidToken]
    ELSE [token |-> v.token, errMsg |-> ""]

\* extractBearerToken: ctx.GetHeader("Authorization") is "" for an absent
\* header
extractBearerToken(c) ==
    IF c.Authorization = <<>> THEN [token |-> <<>>, errMsg |-> ErrMissingToken]
    ELSE LET v == validateAndExtractBearerToken(c.Authorization) IN
         IF ~v.isValid THEN [token |-> <<>>, errMsg |-> ErrInvalidToken]
         ELSE [token |-> v.token, errMsg |-> ""]

\* extractToken taking every strategy for Bearer
extractToken_AnyStrategy(c, authStrategy) ==
    [err |-> NoErr] @@ extractBearerToken(c)

extractToken(c, authStrategy) ==
    IF authStrategy = "Bearer"
    THEN [err |-> NoErr] @@ extractBearerToken(c)
    ELSE [token |-> <<>>, errMsg |-> "",
          err |-> ErisErrorfArg("unsupported auth strategy:", authStrategy)]

(***************************************************************************)
(* What downstream stages may record, write and panic with.                *)
(***************************************************************************)
\* typed application errors raised by handlers
AppErrs ==
    {NotFoundError(<<"resource not found">>), BadRequestError(<<"invalid input">>)}

\* errors of other packages
ExtErrs ==
    {ValidationErrors(<<<<"Name is required">>, <<"Age must be positive">>>>),
     SyntaxError,
     UnmarshalTypeError("age"),
     UnmarshalTypeError("broken pipe"),
     EOF,
     ErrorString(<<"EOF">>),
     ErrorString(<<"unexpected", "EOF">>),
     ErrorString(<<"write tcp", "broken pipe">>),
     ErrorString(<<"read tcp", "connection reset by peer">>),
     ErrorString(<<"database connection failed">>)}

\* eris.Wrap applied n times
RECURSIVE WrapN(_, _)
WrapN(e, n) == IF n = 0 THEN e ELSE ErisWrap(WrapN(e, n - 1), "context")

Errs ==
    AppErrs \cup ExtErrs \cup {ErisErrorf("role not found")}
    \cup {WrapN(e, n) : e \in ExtErrs \cup {ErisErrorf("unsupported")}, n \in 1..MaxWrap}

\* entries of ctx.Errors (gin.Error): the error and whether Meta is set
ErrEntry(e, meta) == [Err |-> e, Meta |-> meta]

ErrEntries ==
    {ErrEntry(e, FALSE) : e \in Errs}
    \cup {ErrEntry(ErrorString(<<"database connection failed">>), TRUE)}

\* the entries that may be followed by another one
EarlyEntries ==
    {ErrEntry(BadRequestError(<<"invalid input">>), FALSE),
     ErrEntry(ErrorString(<<"database connection failed">>), FALSE),
     ErrEntry(ErisWrap(EOF, "context"), FALSE)}

HandlerStatuses == {200, 404}

PanicVals ==
    {[ptype |-> "string", text |-> <<"something went wrong">>],
     [ptype |-> "string", text |-> <<"runtime error:", "index out of range">>],
     [ptype |-> "string", text |-> <<"nil pointer dereference">>],
     [ptype |-> "runtime.Error",
      text |-> <<"runtime error: invalid memory address or nil pointer dereference">>],
     [ptype |-> "runtime.Error",
      text |-> <<"runtime error: index out of range [5] with length 3">>],
     [ptype |-> "runtime.Error", text |-> <<"panic called with nil argument">>],
     [ptype |-> "ungerr.AppError", text |-> <<"resource not found">>],
     [ptype |-> "int", text |-> <<"42">>]}

(***************************************************************************)
(* The authentication and permission middlewares (NewAuthMiddleware,       *)
(* NewPermissionMiddleware).                                               *)
(***************************************************************************)
\* ctx.Error(err)
CtxError(c, err) == [c EXCEPT !.Errors = Append(@, ErrEntry(err, FALSE))]

\* ctx.Abort()
CtxAbort(c) == [c EXCEPT !.aborted = TRUE]

\* a value of ctx.Keys
AttrValue(type, val) == [type |-> type, val |-> val]

\* ctx.GetString(key): "" when the key is absent or its value is no string
GetString(c, key) ==
    IF key \in DOMAIN c.Keys /\ c.Keys[key].type = "string"
    THEN c.Keys[key].val
    ELSE ""

\* a nil tokenCheckFunc
NilFunc == [kind |-> "nil"]

\* what tokenCheckFunc returns
CheckResult(exists, data, err) ==
    [kind |-> "result", exists |-> exists, data |-> data, err |-> err]

\* calling a nil function value
NilCallPanic ==
    [ptype |-> "runtime.Error",
     text |-> <<"runtime error: invalid memory address or nil pointer dereference">>]

\* what the middleware leaves behind: the context, the result of
\* extractToken, the tokens tokenCheckFunc was called with, whether it went
\* on with ctx.Next(), and the panic it raised if any
AuthEffect(c, ext, tokens, next, panic) ==
    [ctx |-> c, ext |-> ext, tokens |-> tokens, next |-> next, panic |-> panic]

\* reject without ctx.Abort()
reject_NoAbort(c, ext, tokens, err) ==
    AuthEffect(CtxError(c, err), ext, tokens, FALSE, NoPanic)

\* _ = ctx.Error(err); ctx.Abort(); return
reject(c, ext, tokens, err) ==
    AuthEffect(CtxAbort(CtxError(c, err)), ext, tokens, FALSE, NoPanic)

\* SetAll keeping the value a key already has
SetAll_KeepOld(c, data) ==
    [c EXCEPT !.Keys = [k \in DOMAIN @ \cup DOMAIN data |->
                            IF k \in DOMAIN @ THEN @[k] ELSE data[k]]]

\* for key, val := range data { ctx.Set(key, val) }
SetAll(c, data) ==
    [c EXCEPT !.Keys = [k \in DOMAIN @ \cup DOMAIN data |->
                            IF k \in DOMAIN data THEN data[k] ELSE @[k]]]

\* checkToken reporting an unknown user as an invalid token
checkToken_NotFoundAsInvalid(c, ext, check) ==
    IF check = NilFunc THEN AuthEffect(c, ext, <<>>, FALSE, NilCallPanic)
    ELSE IF check.err # NoErr THEN reject(c, ext, <<ext.token>>, check.err)
    ELSE IF ~check.exists
    THEN reject(c, ext, <<ext.token>>, UnauthorizedError(<<ErrInvalidToken>>))
    ELSE AuthEffect(SetAll(c, check.data), ext, <<ext.token>>, TRUE, NoPanic)

\* checkToken looking at exists before err
checkToken_ExistsFirst(c, ext, check) ==
    IF check = NilFunc THEN AuthEffect(c, ext, <<>>, FALSE, NilCallPanic)
    ELSE IF check.exists
    THEN AuthEffect(SetAll(c, check.data), ext, <<ext.token>>, TRUE, NoPanic)
    ELSE IF check.err # NoErr THEN reject(c, ext, <<ext.token>>, check.err)
    ELSE reject(c, ext, <<ext.token>>, UnauthorizedError(<<ErrUserNotFound>>))

\* the middleware function from the call of tokenCheckFunc on; check is
\* what tokenCheckFunc returns for the token, calling a nil function panics
checkToken(c, ext, check) ==
    IF check = NilFunc THEN AuthEffect(c, ext, <<>>, FALSE, NilCallPanic)
    ELSE IF check.err # NoErr THEN reject(c, ext, <<ext.token>>, check.err)
    ELSE IF ~check.exists
    THEN reject(c, ext, <<ext.token>>, UnauthorizedError(<<ErrUserNotFound>>))
    ELSE AuthEffect(SetAll(c, check.data), ext, <<ext.token>>, TRUE, NoPanic)

\* the middleware function returned by NewAuthMiddleware
\* the middleware function calling tokenCheckFunc with whatever
\* extractToken returned
authMiddleware_CheckAnyway(c, authStrategy, check) ==
    checkToken(c, extractToken(c, authStrategy), check)

authMiddleware(c, authStrategy, check) ==
    LET ext == extractToken(c, authStrategy) IN
    IF ext.err # NoErr
    THEN reject(c, ext, <<>>, ErisWrap(ext.err, "error extracting token"))
    ELSE IF ext.errMsg # ""
    THEN reject(c, ext, <<>>, UnauthorizedError(<<ext.errMsg>>))
    ELSE checkToken(c, ext, check)

\* NewAuthMiddleware without the nil check
newAuthMiddleware_NoNilCheck(authStrategy, tokenCheckFuncNil) ==
    [phase |-> "auth built", logs |-> <<>>]

\* NewAuthMiddleware refusing the strategies extractToken does not support
newAuthMiddleware_StrategyChecked(authStrategy, tokenCheckFuncNil) ==
    IF tokenCheckFuncNil \/ authStrategy # "Bearer"
    THEN [phase |-> "fatal",
          logs |-> <<[sev |-> "fatal", tag |-> "invalid configuration",
                      arg |-> <<>>]>>]
    ELSE [phase |-> "auth built", logs |-> <<>>]

\* NewAuthMiddleware up to the return of the middleware function:
\* logger.Fatalf ends the process
newAuthMiddleware(authStrategy, tokenCheckFuncNil) ==
    IF tokenCheckFuncNil
    THEN [phase |-> "fatal",
          logs |-> <<[sev |-> "fatal", tag |-> "tokenCheckFunc cannot be nil",
                      arg |-> <<>>]>>]
    ELSE [phase |-> "auth built", logs |-> <<>>]

\* what the permission middleware leaves behind: the context, whether it
\* went on with ctx.Next(), and the permission table
PermEffect(c, next, permissionMap) ==
    [ctx |-> c, next |-> next, permissionMap |-> permissionMap]

\* deny without ctx.Error(err)
deny_AbortOnly(c, err, permissionMap) == PermEffect(CtxAbort(c), FALSE, permissionMap)

\* _ = ctx.Error(err); ctx.Abort(); return
deny(c, err, permissionMap) == PermEffect(CtxAbort(CtxError(c, err)), FALSE, permissionMap)

\* permissionMiddleware answering an unknown role with a forbidden error
permissionMiddleware_UnknownForbidden(c, roleContextKey, requiredPermission, permissionMap) ==
    LET role == GetString(c, roleContextKey) IN
    IF role = ""
    THEN deny(c, ErisErrorf("role not found in context or invalid type"), permissionMap)
    ELSE IF role \notin DOMAIN permissionMap
    THEN deny(c, ForbiddenError(<<"unknown role">>), permissionMap)
    ELSE IF requiredPermission \notin permissionMap[role]
    THEN deny(c, ForbiddenError(<<ErrNoPermission>>), permissionMap)
    ELSE PermEffect(c, TRUE, permissionMap)

\* permissionMiddleware letting every known role through
permissionMiddleware_AnyPermission(c, roleContextKey, requiredPermission, permissionMap) ==
    LET role == GetString(c, roleContextKey) IN
    IF role = ""
    THEN deny(c, ErisErrorf("role not found in context or invalid type"), permissionMap)
    ELSE IF role \notin DOMAIN permissionMap
    THEN deny(c, ErisErrorfArg("unknown role:", role), permissionMap)
    ELSE PermEffect(c, TRUE, permissionMap)

\* permissionMiddleware keeping the permission it granted in the context
permissionMiddleware_StoresPermission(c, roleContextKey, requiredPermission, permissionMap) ==
    LET role == GetString(c, roleContextKey) IN
    IF role = ""
    THEN deny(c, ErisErrorf("role not found in context or invalid type"), permissionMap)
    ELSE IF role \notin DOMAIN permissionMap
    THEN deny(c, ErisErrorfArg("unknown role:", role), permissionMap)
    ELSE IF requiredPermission \notin permissionMap[role]
    THEN deny(c, ForbiddenError(<<ErrNoPermission>>), permissionMap)
    ELSE PermEffect(SetAll(c, [permission |-> AttrValue("string", requiredPermission)]),
                    TRUE, permissionMap)

\* the middleware function returned by NewPermissionMiddleware; the role is
\* looked up in permissionMap and requiredPermission among its permissions
permissionMiddleware(c, roleContextKey, requiredPermission, permissionMap) ==
    LET role == GetString(c, roleContextKey) IN
    IF role = ""
    THEN deny(c, ErisErrorf("role not found in context or invalid type"), permissionMap)
    ELSE IF role \notin DOMAIN permissionMap
    THEN deny(c, ErisErrorfArg("unknown role:", role), permissionMap)
    ELSE IF requiredPermission \notin permissionMap[role]
    THEN deny(c, ForbiddenError(<<ErrNoPermission>>), permissionMap)
    ELSE PermEffect(c, TRUE, permissionMap)

(***************************************************************************)
(* The state machine: one request through errorMiddleware.handle.          *)
(***************************************************************************)
NewGuard == [nextCalls |-> 0, recovers |-> 0, classifies |-> 0, aborts |-> 0]

Stamp(req, logs) == [i \in 1..Len(logs) |-> [req |-> req] @@ logs[i]]

\* what is known of a request's way through the chain: the stages entered
\* and left, the result of extractToken, the tokens tokenCheckFunc was
\* called with and what it returned, and the middleware that aborted
NewChain ==
    [ran |-> {}, left |-> {}, ext |-> [token |-> <<>>, errMsg |-> "", err |-> NoErr],
     tokens |-> <<>>, check |-> NilFunc, abortedBy |-> "none"]

\* a router with the error middleware alone in front of the handlers
NoAuth ==
    [phase |-> "serving", stages |-> <<"next">>, authStrategy |-> "",
     tokenCheckFuncNil |-> FALSE, requiredPermission |-> "",
     permissionMap |-> <<>>]

\* the stage that follows stage in the chain: gin runs it unless the context
\* is aborted
StageAfter(c, stage) ==
    IF c.aborted THEN "returned"
    ELSE LET i == CHOOSE j \in 1..Len(mw.stages) : mw.stages[j] = stage
         IN  IF i < Len(mw.stages) THEN mw.stages[i + 1] ELSE "returned"

Enter(ch, stage) ==
    IF stage = "returned" THEN ch ELSE [ch EXCEPT !.ran = @ \cup {stage}]

\* no helper function is being called
NoCall == [fn |-> "none"]

\* no HttpServer has been constructed
NoServer == [main |-> "none"]

Init ==
    /\ pc = [r \in Reqs |-> "start"]
    /\ ctx = [r \in Reqs |-> NewContext]
    /\ panicVal = [r \in Reqs |-> NoPanic]
    /\ log = <<>>
    /\ guard = [r \in Reqs |-> NewGuard]
    /\ mw = NoAuth
    /\ chain = [r \in Reqs |-> NewChain]
    /\ call = NoCall
    /\ hs = NoServer

\* handle is entered and calls ctx.Next()
Handle(r) ==
    /\ pc[r] = "start"
    /\ mw.phase = "serving"
    /\ pc' = [pc EXCEPT ![r] = mw.stages[1]]
    /\ chain' = [chain EXCEPT ![r] = Enter(@, mw.stages[1])]
    /\ guard' = [guard EXCEPT ![r].nextCalls = @ + 1]
    /\ UNCHANGED <<ctx, panicVal, log, mw, call, hs>>

\* a downstream stage writes a JSON response: ctx.JSON(code, ...)
HandlerJSON(r, code) ==
    /\ pc[r] = "next"
    /\ ~ctx[r].Writer.written
    /\ ctx' = [ctx EXCEPT ![r].Writer =
                  WriteJSON(@, code, NewResponse(<<"ok">>, "data"), "handler")]
    /\ UNCHANGED <<pc, panicVal, log, guard, mw, chain, call, hs>>

\* a downstream stage records an error: ctx.Error(err)
HandlerError(r, entry) ==
    /\ pc[r] = "next"
    /\ Len(ctx[r].Errors) < MaxErrors
    /\ \A i \in 1..Len(ctx[r].Errors) : ctx[r].Errors[i] \in EarlyEntries
    /\ ctx' = [ctx EXCEPT ![r].Errors = Append(@, entry)]
    /\ UNCHANGED <<pc, panicVal, log, guard, mw, chain, call, hs>>

\* a downstream stage aborts the chain: ctx.Abort()
HandlerAbort(r) ==
    /\ pc[r] = "next"
    /\ ~ctx[r].aborted
    /\ ctx' = [ctx EXCEPT ![r].aborted = TRUE]
    /\ UNCHANGED <<pc, panicVal, log, guard, mw, chain, call, hs>>

\* a downstream stage panics: control leaves ctx.Next() for the deferred call
HandlerPanic(r, v) ==
    /\ pc[r] = "next"
    /\ pc' = [pc EXCEPT ![r] = "panicking"]
    /\ panicVal' = [panicVal EXCEPT ![r] = v]
    /\ UNCHANGED <<ctx, log, guard, mw, chain, call, hs>>

\* the downstream stages return and so does ctx.Next()
HandlerReturn(r) ==
    /\ pc[r] = "next"
    /\ pc' = [pc EXCEPT ![r] = "returned"]
    /\ chain' = [chain EXCEPT ![r].left = @ \cup {"next"}]
    /\ UNCHANGED <<ctx, panicVal, log, guard, mw, call, hs>>

\* handle running the downstream stages once more after an error
HandleAfterNext_Retry(r) ==
    /\ pc[r] = "returned"
    /\ IF ctx[r].Errors # <<>> /\ guard[r].nextCalls < 2
       THEN /\ pc' = [pc EXCEPT ![r] = "next"]
            /\ guard' = [guard EXCEPT ![r].nextCalls = @ + 1]
            /\ ctx' = [ctx EXCEPT ![r].Errors = <<>>]
            /\ UNCHANGED log
       ELSE /\ ctx' = [ctx EXCEPT ![r] = afterNext(ctx[r]).ctx]
            /\ log' = log \o Stamp(r, afterNext(ctx[r]).logs)
            /\ guard' = [guard EXCEPT ![r].classifies = @ + afterNext(ctx[r]).classifies,
                                      ![r].aborts = @ + afterNext(ctx[r]).aborts]
            /\ pc' = [pc EXCEPT ![r] = "done"]
    /\ UNCHANGED <<panicVal, mw, chain, call, hs>>

\* handle, from the return of ctx.Next() to its own return
HandleAfterNext(r) ==
    /\ pc[r] = "returned"
    /\ LET eff == afterNext(ctx[r]) IN
        /\ ctx' = [ctx EXCEPT ![r] = eff.ctx]
        /\ log' = log \o Stamp(r, eff.logs)
        /\ guard' = [guard EXCEPT ![r].classifies = @ + eff.classifies,
                                  ![r].aborts = @ + eff.aborts]
    /\ pc' = [pc EXCEPT ![r] = "done"]
    /\ UNCHANGED <<panicVal, mw, chain, call, hs>>

\* the deferred function of handle answering on every context in flight, as
\* a middleware keeping the context in a field shared by all requests would
HandleDeferred_SharedContext(r) ==
    /\ pc[r] = "panicking"
    /\ ctx' = [q \in DOMAIN ctx |-> deferredRecover(panicVal[r], ctx[q]).ctx]
    /\ log' = log \o Stamp(r, deferredRecover(panicVal[r], ctx[r]).logs)
    /\ guard' = [guard EXCEPT ![r].recovers = @ + 1]
    /\ pc' = [pc EXCEPT ![r] = "done"]
    /\ UNCHANGED <<panicVal, mw, chain, call, hs>>

\* the deferred function of handle, run while the panic unwinds: handle
\* returns normally if the panic was recovered, the panic goes on to the
\* caller of handle otherwise
HandleDeferred(r) ==
    /\ pc[r] = "panicking"
    /\ LET eff == deferredRecover(panicVal[r], ctx[r]) IN
        /\ ctx' = [ctx EXCEPT ![r] = eff.ctx]
        /\ log' = log \o Stamp(r, eff.logs)
        /\ guard' = [guard EXCEPT ![r].recovers = @ + (IF eff.recovered THEN 1 ELSE 0),
                                  ![r].aborts = @ + eff.aborts]
        /\ pc' = [pc EXCEPT ![r] = IF eff.recovered THEN "done" ELSE "panicked"]
    /\ UNCHANGED <<panicVal, mw, chain, call, hs>>

Next ==
    \E r \in Reqs :
        \/ Handle(r)
        \/ \E code \in HandlerStatuses : HandlerJSON(r, code)
        \/ \E entry \in ErrEntries : HandlerError(r, entry)
        \/ HandlerAbort(r)
        \/ \E v \in PanicVals : HandlerPanic(r, v)
        \/ HandlerReturn(r)
        \/ HandleAfterNext(r)
        \/ HandleDeferred(r)

Spec == Init /\ [][Next]_vars

\* the steps of handle itself: the goroutine of the request keeps running
GuardStep == \E r \in Reqs : Handle(r) \/ HandleAfterNext(r) \/ HandleDeferred(r)

\* the downstream stages come to an end: they return or panic
DownstreamEnds ==
    \E r \in Reqs : HandlerReturn(r) \/ \E v \in PanicVals : HandlerPanic(r, v)

\* one request whose goroutine keeps running and whose downstream stages
\* finish or panic
SpecLive == Spec /\ WF_vars(GuardStep) /\ WF_vars(DownstreamEnds)

(***************************************************************************)
(* The chain error middleware -> authentication -> permission -> handler.  *)
(***************************************************************************)
Bearer == <<"B", "e", "a", "r", "e", "r">>

\* what may follow the scheme in a header: lower-case and upper-case letters
\* and spaces
RECURSIVE Tails(_)
Tails(n) ==
    IF n = 0 THEN {<<>>}
    ELSE Tails(n - 1)
         \cup {Append(t, ch) : t \in {u \in Tails(n - 1) : Len(u) = n - 1},
                               ch \in {"t", "R", " "}}

Schemes ==
    {Bearer, <<"b", "e", "a", "r", "e", "r">>, <<"B", "E", "A", "R", "E", "R">>,
     <<"B", "e", "A", "r", "E", "r">>, <<"B", "a", "s", "i", "c">>, <<>>}

\* values of the Authorization header; <<>> is the absent header as well
Headers ==
    {<<>>} \cup Schemes
    \cup {sch \o <<" ">> \o t : sch \in Schemes, t \in Tails(MaxTokenLen)}

\* attributes the request may carry before authentication
EarlierKeys ==
    {NoKeys,
     [role |-> AttrValue("string", "viewer"), trace |-> AttrValue("string", "abc")]}

Requests ==
    {[NewContext EXCEPT !.Authorization = h, !.Keys = k] :
        h \in Headers, k \in EarlierKeys}

AuthStrategies == {"Bearer", "bearer", "Basic"}

\* the permission table of the tests
PermissionMap ==
    [admin |-> {"read", "write", "delete"}, editor |-> {"read", "write"},
     viewer |-> {"read"}]

RequiredPermissions == {"read", "delete"}

\* attribute maps tokenCheckFunc may return; the first is the nil map
CheckData ==
    {NoKeys,
     [user_id |-> AttrValue("string", "123"), role |-> AttrValue("string", "admin")],
     [user_id |-> AttrValue("string", "456"), role |-> AttrValue("string", "viewer")],
     [user_id |-> AttrValue("string", "789"), role |-> AttrValue("string", "unknown")],
     [user_id |-> AttrValue("string", "789"), role |-> AttrValue("int", "123")]}

CheckErrs ==
    {NoErr, InternalServerError, ErrorString(<<"database connection failed">>),
     ErisWrap(EOF, "context")}

CheckResults ==
    {CheckResult(exists, data, err) :
        exists \in BOOLEAN, data \in CheckData, err \in CheckErrs}

InitAuth ==
    /\ pc = [r \in Reqs |-> "start"]
    /\ ctx \in [Reqs -> Requests]
    /\ panicVal = [r \in Reqs |-> NoPanic]
    /\ log = <<>>
    /\ guard = [r \in Reqs |-> NewGuard]
    /\ mw = [phase |-> "init", stages |-> <<>>, authStrategy |-> "",
             tokenCheckFuncNil |-> FALSE, requiredPermission |-> "",
     permissionMap |-> <<>>]
    /\ chain = [r \in Reqs |-> NewChain]
    /\ call = NoCall
    /\ hs = NoServer

\* mp.NewAuthMiddleware(authStrategy, tokenCheckFunc) at startup
NewAuthMiddleware(authStrategy, tokenCheckFuncNil) ==
    /\ mw.phase = "init"
    /\ LET eff == newAuthMiddleware(authStrategy, tokenCheckFuncNil) IN
        /\ mw' = [mw EXCEPT !.phase = eff.phase,
                            !.stages = IF eff.phase = "fatal" THEN <<>> ELSE <<"auth">>,
                            !.authStrategy = authStrategy,
                            !.tokenCheckFuncNil = tokenCheckFuncNil]
        /\ log' = log \o Stamp("startup", eff.logs)
    /\ UNCHANGED <<pc, ctx, panicVal, guard, chain, call, hs>>

\* mp.NewPermissionMiddleware("role", requiredPermission, permissionMap) at
\* startup; the router then serves
NewPermissionMiddleware(requiredPermission) ==
    /\ mw.phase = "auth built"
    /\ mw' = [mw EXCEPT !.phase = "serving",
                        !.stages = @ \o <<"perm", "next">>,
                        !.requiredPermission = requiredPermission,
                        !.permissionMap = PermissionMap]
    /\ UNCHANGED <<pc, ctx, panicVal, log, guard, chain, call, hs>>

\* the authentication middleware runs for the request; check is what
\* tokenCheckFunc returns if it is called
AuthMiddleware(r, check) ==
    /\ pc[r] = "auth"
    /\ LET eff == authMiddleware(ctx[r], mw.authStrategy,
                                 IF mw.tokenCheckFuncNil THEN NilFunc ELSE check)
           to == IF eff.panic # NoPanic THEN "panicking" ELSE StageAfter(eff.ctx, "auth")
       IN
        /\ ctx' = [ctx EXCEPT ![r] = eff.ctx]
        /\ panicVal' = [panicVal EXCEPT ![r] = eff.panic]
        /\ pc' = [pc EXCEPT ![r] = to]
        /\ chain' = [chain EXCEPT ![r] =
               Enter([@ EXCEPT !.left = @ \cup {"auth"},
                               !.ext = eff.ext,
                               !.tokens = @ \o eff.tokens,
                               !.check = IF eff.tokens = <<>> THEN @ ELSE check,
                               !.abortedBy = IF eff.ctx.aborted THEN "auth" ELSE @],
                     to)]
    /\ UNCHANGED <<log, guard, mw, call, hs>>

\* the permission middleware runs for the request
PermissionMiddleware(r) ==
    /\ pc[r] = "perm"
    /\ LET eff == permissionMiddleware(ctx[r], "role", mw.requiredPermission,
                                       mw.permissionMap)
           to == StageAfter(eff.ctx, "perm")
       IN
        /\ ctx' = [ctx EXCEPT ![r] = eff.ctx]
        /\ mw' = [mw EXCEPT !.permissionMap = eff.permissionMap]
        /\ pc' = [pc EXCEPT ![r] = to]
        /\ chain' = [chain EXCEPT ![r] =
               Enter([@ EXCEPT !.left = @ \cup {"perm"},
                               !.abortedBy = IF eff.ctx.aborted THEN "perm" ELSE @],
                     to)]
    /\ UNCHANGED <<panicVal, log, guard, call, hs>>

NextAuth ==
    \/ \E s \in AuthStrategies, n \in BOOLEAN : NewAuthMiddleware(s, n)
    \/ \E p \in RequiredPermissions : NewPermissionMiddleware(p)
    \/ \E r \in Reqs :
        \/ Handle(r)
        \/ \E check \in CheckResults : AuthMiddleware(r, check)
        \/ PermissionMiddleware(r)
        \/ \E code \in HandlerStatuses : HandlerJSON(r, code)
        \/ \E v \in PanicVals : HandlerPanic(r, v)
        \/ HandlerReturn(r)
        \/ HandleAfterNext(r)
        \/ HandleDeferred(r)

SpecAuth == InitAuth /\ [][NextAuth]_vars

(***************************************************************************)
(* Two requests in flight at once through the same middleware instances:   *)
(* the server runs every request in a goroutine of its own.                *)
(***************************************************************************)
ConcReqs == {"r1", "r2"}

ConcRequest == [NewContext EXCEPT !.Authorization = Bearer \o <<" ", "t">>]

\* what tokenCheckFunc answers: a user with one of the attribute maps, or no
\* user
ConcChecks ==
    {CheckResult(TRUE, data, NoErr) : data \in CheckData}
    \cup {CheckResult(FALSE, NoKeys, NoErr)}

\* errors the handlers record: a plain error and a wrapped json error
ConcEntries ==
    {ErrEntry(ErrorString(<<"database connection failed">>), FALSE),
     ErrEntry(ErisWrap(SyntaxError, "context"), FALSE)}

ConcPanics ==
    {[ptype |-> "string", text |-> <<"something went wrong">>],
     [ptype |-> "runtime.Error",
      text |-> <<"runtime error: index out of range [5] with length 3">>]}

\* the router serves, with the authentication and permission middlewares
\* built
InitConc ==
    /\ pc = [r \in ConcReqs |-> "start"]
    /\ ctx = [r \in ConcReqs |-> ConcRequest]
    /\ panicVal = [r \in ConcReqs |-> NoPanic]
    /\ log = <<>>
    /\ guard = [r \in ConcReqs |-> NewGuard]
    /\ mw = [phase |-> "serving", stages |-> <<"auth", "perm", "next">>,
             authStrategy |-> "Bearer", tokenCheckFuncNil |-> FALSE,
             requiredPermission |-> "delete", permissionMap |-> PermissionMap]
    /\ chain = [r \in ConcReqs |-> NewChain]
    /\ call = NoCall
    /\ hs = NoServer

NextConc ==
    \E r \in ConcReqs :
        \/ Handle(r)
        \/ \E check \in ConcChecks : AuthMiddleware(r, check)
        \/ PermissionMiddleware(r)
        \/ HandlerJSON(r, 200)
        \/ \E entry \in ConcEntries : HandlerError(r, entry)
        \/ \E v \in ConcPanics : HandlerPanic(r, v)
        \/ HandlerReturn(r)
        \/ HandleAfterNext(r)
        \/ HandleDeferred(r)

SpecConc == InitConc /\ [][NextConc]_vars

(***************************************************************************)
(* Properties.                                                             *)
(***************************************************************************)
Body(r) == ctx[r].Writer.body

GuardWrites(r) == SelectSeq(Body(r), LAMBDA w : w.by = "guard")

HandlerWrites(r) == SelectSeq(Body(r), LAMBDA w : w.by = "handler")

LogsOf(r) == SelectSeq(log, LAMBDA l : l.req = r)

LogTags(r) == {LogsOf(r)[i].tag : i \in 1..Len(LogsOf(r))}

Panicked(r) == panicVal[r] # NoPanic

\* handle has returned after downstream stages returned normally
ReturnedNormally(r) == pc[r] = "done" /\ ~Panicked(r)

\* the body of the masked internal error: status 500, no detail of the cause
MaskedBody == [Message |-> <<>>, Data |-> "", Errors |-> AppError(500, <<>>)]

\* a write of the guard with this status and this body, and the status line
\* of the response is that status unless the response was written before
GuardWrote(r, status, obj) ==
    /\ Len(GuardWrites(r)) = 1
    /\ GuardWrites(r)[1].code = status
    /\ GuardWrites(r)[1].obj = obj
    /\ (~GuardWrites(r)[1].late => ctx[r].Writer.status = status)

\* C1: the response of a request is written at most once, and no write is
\* made to a response that is already written.
C1_SingleWriter ==
    \A r \in Reqs :
        /\ Len(Body(r)) <= 1
        /\ \A i \in 1..Len(Body(r)) : ~Body(r)[i].late

\* C2: a panic raised before anything is written ends with exactly one
\* response, status 500 with the masked body, the request aborted and the
\* panic logged at error severity.
C2_PanicBeforeWrite ==
    \A r \in Reqs :
        (pc[r] = "done" /\ Panicked(r) /\ HandlerWrites(r) = <<>>) =>
            /\ Body(r) = <<[by |-> "guard", code |-> 500, obj |-> MaskedBody,
                            late |-> FALSE]>>
            /\ ctx[r].Writer.status = 500
            /\ ctx[r].aborted
            /\ \E i \in 1..Len(LogsOf(r)) :
                  /\ LogsOf(r)[i].sev = "error"
                  /\ LogsOf(r)[i].tag = "PANIC RECOVERED in handler"
            /\ \E i \in 1..Len(LogsOf(r)) :
                  /\ LogsOf(r)[i].sev = "error"
                  /\ LogsOf(r)[i].tag = "Panic value"
                  /\ LogsOf(r)[i].arg = panicVal[r].text

C2_Witness ==
    \E r \in Reqs :
        /\ pc[r] = "done" /\ Panicked(r) /\ HandlerWrites(r) = <<>>
        /\ panicVal[r].ptype = "runtime.Error"

\* C3: a panic raised after the response was written leaves the response as
\* it was written (one write, its status) and the guard only logs that the
\* response was already written.
C3_PanicAfterWrite ==
    \A r \in Reqs :
        (pc[r] = "done" /\ Panicked(r) /\ HandlerWrites(r) # <<>>) =>
            /\ GuardWrites(r) = <<>>
            /\ Len(Body(r)) = 1
            /\ ctx[r].Writer.status = Body(r)[1].code
            /\ guard[r].aborts = 0
            /\ "Response already written, cannot send error JSON" \in LogTags(r)

C3_Witness ==
    \E r \in Reqs :
        /\ pc[r] = "done" /\ Panicked(r) /\ HandlerWrites(r) # <<>>
        /\ ctx[r].Writer.status = 404

\* C4: no panic leaves handle: every panic is recovered exactly once, handle
\* returns, the classifier is not run and whatever the guard writes is the
\* masked 500, whatever the panic value and the recorded errors are.
C4_PanicNeverPropagates ==
    \A r \in Reqs :
        /\ pc[r] # "panicked"
        /\ guard[r].recovers <= 1
        /\ (Panicked(r) /\ pc[r] = "done") =>
              /\ guard[r].recovers = 1
              /\ guard[r].classifies = 0
              /\ \A i \in 1..Len(GuardWrites(r)) :
                    /\ GuardWrites(r)[i].code = 500
                    /\ GuardWrites(r)[i].obj = MaskedBody

C4_Witness ==
    \E r \in Reqs :
        /\ pc[r] = "done" /\ Panicked(r)
        /\ ctx[r].Errors # <<>>
        /\ IsAppError(Last(ctx[r].Errors).Err)
        /\ GuardWrites(r) # <<>>

\* the classification the guard is to make of an underlying error: status
\* and details, type before text
Expected(u) ==
    CASE u.kind = "validator.ValidationErrors" -> AppError(422, u.fieldErrors)
      [] u.kind = "json.SyntaxError" -> AppError(400, <<<<"invalid json">>>>)
      [] u.kind = "json.UnmarshalTypeError" ->
            AppError(400, <<<<"invalid value for field", u.Field>>>>)
      [] OTHER ->
            IF u.kind = "io.EOF" \/ ErrorText(u) = <<"EOF">>
            THEN AppError(400, <<<<"missing request body">>>>)
            ELSE IF \E i \in 1..Len(ErrorText(u)) :
                       ErrorText(u)[i] \in {"connection reset by peer", "broken pipe"}
            THEN AppError(400, <<<<"connection error">>>>)
            ELSE AppError(500, <<>>)

\* what the last entry of the error list asks for: a typed error as it is,
\* the masked error for an error that is not wrapped
ExpectedFor(e) ==
    IF IsAppError(e) THEN e
    ELSE IF ErisUnwrap(e) = NoErr THEN AppError(500, <<>>)
    ELSE Expected(ErisUnwrap(e))

ErrorBody(app) == [Message |-> Flatten(app.details), Data |-> "", Errors |-> app]

LastErr(r) == Last(ctx[r].Errors).Err

\* C5: after a normal return with a non-empty error list the guard writes
\* once, the status and body the last entry asks for, whatever the earlier
\* entries are; with a typed last entry the logger is not called.
C5_LatestFailureWins ==
    \A r \in Reqs :
        (ReturnedNormally(r) /\ ctx[r].Errors # <<>>) =>
            /\ GuardWrote(r, ExpectedFor(LastErr(r)).status,
                          ErrorBody(ExpectedFor(LastErr(r))))
            /\ (IsAppError(LastErr(r)) => LogsOf(r) = <<>>)

C5_Witness ==
    \E r \in Reqs :
        /\ ReturnedNormally(r)
        /\ Len(ctx[r].Errors) = 2
        /\ ctx[r].Errors[1].Err = ErrorString(<<"database connection failed">>)
        /\ IsAppError(LastErr(r))
        /\ ctx[r].Writer.status = 404

\* C6: a typed application error as last entry is answered with its own
\* status and message, the error itself in the body, and no logger call.
C6_TypedPassThrough ==
    \A r \in Reqs :
        (ReturnedNormally(r) /\ ctx[r].Errors # <<>> /\ IsAppError(LastErr(r))) =>
            /\ Len(GuardWrites(r)) = 1
            /\ GuardWrites(r)[1].code = LastErr(r).status
            /\ GuardWrites(r)[1].obj.Errors = LastErr(r)
            /\ GuardWrites(r)[1].obj.Message = ErrorText(LastErr(r))
            /\ (HandlerWrites(r) = <<>> => ctx[r].Writer.status = LastErr(r).status)
            /\ LogsOf(r) = <<>>
            /\ ctx[r].aborted

C6_Witness ==
    \E r \in Reqs :
        /\ ReturnedNormally(r)
        /\ ctx[r].Errors = <<ErrEntry(NotFoundError(<<"resource not found">>), FALSE)>>
        /\ ctx[r].Writer.status = 404
        /\ HandlerWrites(r) = <<>>

\* C7: a wrapped error that is no typed error is classified by what it
\* unwraps to, by type first and by text second: 422 validation, 400 invalid
\* json, 400 invalid value for field, 400 missing request body, 400
\* connection error, else the masked 500 with an error record logged.
C7_ClassificationOrder ==
    \A r \in Reqs :
        (/\ ReturnedNormally(r) /\ ctx[r].Errors # <<>>
         /\ ~IsAppError(LastErr(r)) /\ ErisUnwrap(LastErr(r)) # NoErr) =>
            /\ GuardWrote(r, Expected(ErisUnwrap(LastErr(r))).status,
                          ErrorBody(Expected(ErisUnwrap(LastErr(r)))))
            /\ (Expected(ErisUnwrap(LastErr(r))).status = 500 =>
                    \E i \in 1..Len(LogsOf(r)) : LogsOf(r)[i].sev = "error")

C7_Witness ==
    \E r \in Reqs :
        /\ ReturnedNormally(r) /\ ctx[r].Errors # <<>>
        /\ ErisUnwrap(LastErr(r)) = UnmarshalTypeError("broken pipe")
        /\ ctx[r].Writer.status = 400

\* C8: an error that is neither typed nor wrapped is logged at error
\* severity (type, message, request, handler, user agent, remote address,
\* metadata if any) and answered with the masked 500.
C8_UnwrappedError ==
    \A r \in Reqs :
        (/\ ReturnedNormally(r) /\ ctx[r].Errors # <<>>
         /\ ~IsAppError(LastErr(r)) /\ ErisUnwrap(LastErr(r)) = NoErr) =>
            /\ GuardWrote(r, 500, MaskedBody)
            /\ {"Error type", "Error message", "Request", "Handler",
                "User-Agent", "Remote-Addr"} \subseteq LogTags(r)
            /\ (Last(ctx[r].Errors).Meta => "Error metadata" \in LogTags(r))
            /\ \A i \in 1..Len(LogsOf(r)) : LogsOf(r)[i].sev = "error"
            /\ \E i \in 1..Len(LogsOf(r)) :
                  /\ LogsOf(r)[i].tag = "Error message"
                  /\ LogsOf(r)[i].arg = ErrorText(LastErr(r))

C8_Witness ==
    \E r \in Reqs :
        /\ ReturnedNormally(r) /\ ctx[r].Errors # <<>>
        /\ ~IsAppError(LastErr(r)) /\ ErisUnwrap(LastErr(r)) = NoErr
        /\ Last(ctx[r].Errors).Meta
        /\ ctx[r].Writer.status = 500

\* the request ended in an unclassified internal fault: a panic, an error
\* that is not wrapped, or a wrapped error of no known category
InternalFault(r) ==
    /\ pc[r] = "done"
    /\ \/ Panicked(r)
       \/ /\ ctx[r].Errors # <<>>
          /\ ~IsAppError(LastErr(r))
          /\ ExpectedFor(LastErr(r)).status = 500

\* the text the caller is not to see: the panic value, or the text of the
\* last error
InternalText(r) ==
    IF Panicked(r) THEN panicVal[r].text ELSE ErrorText(LastErr(r))

\* C9: every response the guard writes for an unclassified internal fault is
\* the same status 500 and masked body, with no token of the error text or
\* panic value in it, and the request has an error record in the log.
C9_Masking ==
    \A r \in Reqs :
        InternalFault(r) =>
            /\ \A i \in 1..Len(GuardWrites(r)) :
                  /\ GuardWrites(r)[i].code = 500
                  /\ GuardWrites(r)[i].obj = MaskedBody
                  /\ \A j \in 1..Len(GuardWrites(r)[i].obj.Message) :
                        ~Contains(InternalText(r), GuardWrites(r)[i].obj.Message[j])
            /\ (~Panicked(r) => Len(GuardWrites(r)) = 1)
            /\ \E i \in 1..Len(LogsOf(r)) : LogsOf(r)[i].sev = "error"

C9_Witness ==
    \E r \in Reqs :
        /\ InternalFault(r) /\ ~Panicked(r)
        /\ ErisUnwrap(LastErr(r)) = ErrorString(<<"database connection failed">>)
        /\ ctx[r].Writer.status = 500

\* C10: the classifier runs at most once for a request, only in a handle
\* that returned normally with a non-empty error list; with an empty list
\* the guard writes nothing, does not abort and does not log.
C10_ClassifierOnce ==
    \A r \in Reqs :
        /\ guard[r].classifies <= 1
        /\ guard[r].classifies = 1 => (ReturnedNormally(r) /\ ctx[r].Errors # <<>>)
        /\ (ReturnedNormally(r) /\ ctx[r].Errors = <<>>) =>
              /\ guard[r].classifies = 0
              /\ GuardWrites(r) = <<>>
              /\ guard[r].aborts = 0
              /\ LogsOf(r) = <<>>

C10_Witness ==
    \E r \in Reqs :
        /\ ReturnedNormally(r) /\ ctx[r].Errors = <<>>
        /\ ~ctx[r].aborted
        /\ ~ctx[r].Writer.written

\* the error at the bottom of the eris layers of e (nil for an eris error
\* made by eris.Errorf)
RECURSIVE Underlying(_)
Underlying(e) == IF IsEris(e) THEN Underlying(ErisUnwrap(e)) ELSE e

\* C11: an error under any number of eris.Wrap layers is classified as the
\* same error under one layer: the status and body of the guard's write are
\* those of the underlying error.
C11_WrappingKeepsClass ==
    \A r \in Reqs :
        (/\ ReturnedNormally(r) /\ ctx[r].Errors # <<>>
         /\ IsEris(LastErr(r)) /\ Underlying(LastErr(r)) # NoErr) =>
            GuardWrote(r, Expected(Underlying(LastErr(r))).status,
                       ErrorBody(Expected(Underlying(LastErr(r)))))

(***************************************************************************)
(* Properties of the chain with authentication and permission.             *)
(***************************************************************************)
AuthLeft(r) == "auth" \in chain[r].left

\* tokenCheckFunc was called for the request and returned
Checked(r) == AuthLeft(r) /\ chain[r].tokens # <<>>

\* the token was extracted
Extracted(r) ==
    AuthLeft(r) /\ chain[r].ext.err = NoErr /\ chain[r].ext.errMsg = ""

\* the authentication middleware found a reason to refuse the request
AuthFailed(r) ==
    /\ AuthLeft(r)
    /\ \/ ~Extracted(r)
       \/ Checked(r) /\ (chain[r].check.err # NoErr \/ ~chain[r].check.exists)

\* the permission middleware found a reason to refuse the request; the
\* handlers of this chain record no error
PermFailed(r) == "perm" \in chain[r].left /\ ctx[r].Errors # <<>>

\* C12: in the chain guard -> authenticator -> authorizer -> handler, once the
\* authenticator refuses a request it is aborted and neither the authorizer
\* nor the handler runs; once the authorizer refuses it, it is aborted and
\* the handler does not run.
C12_AbortStopsChain ==
    \A r \in Reqs :
        /\ AuthFailed(r) =>
              /\ ctx[r].aborted /\ chain[r].abortedBy = "auth"
              /\ chain[r].ran \cap {"perm", "next"} = {}
              /\ HandlerWrites(r) = <<>>
        /\ PermFailed(r) =>
              /\ ctx[r].aborted /\ chain[r].abortedBy = "perm"
              /\ "next" \notin chain[r].ran
              /\ HandlerWrites(r) = <<>>

C12_Witness ==
    \E r \in Reqs : pc[r] = "done" /\ AuthFailed(r) /\ chain[r].ran = {"auth"}

NoSpace(t) == \A i \in 1..Len(t) : t[i] # " "

\* a header that is neither empty nor the word bearer, in any case, one
\* space and a token without space
Malformed(h) ==
    /\ h # <<>>
    /\ ~\E sch \in {x \in Schemes : ToLower(x) = ToLower(Bearer)} :
          \E t \in Tails(MaxTokenLen) : NoSpace(t) /\ h = sch \o <<" ">> \o t

\* the request was aborted with this unauthorized failure and answered 401
\* with its message
Refused401(r, msg) ==
    /\ ctx[r].aborted
    /\ LastErr(r) = AppError(401, <<<<msg>>>>)
    /\ Len(ctx[r].Errors) = 1
    /\ GuardWrote(r, 401, ErrorBody(AppError(401, <<<<msg>>>>)))
    /\ ctx[r].Writer.status = 401

\* C13: under the Bearer strategy and with the guard outermost, a request
\* without Authorization header (or with an empty one) is aborted and
\* answered 401 "missing token", one with a malformed header 401 "invalid
\* token", and one whose token tokenCheckFunc does not know (found=false, no
\* error) 401 "user not found".
C13_UnauthorizedMessages ==
    \A r \in Reqs :
        (pc[r] = "done" /\ AuthLeft(r) /\ mw.authStrategy = "Bearer") =>
            /\ ctx[r].Authorization = <<>> => Refused401(r, "missing token")
            /\ Malformed(ctx[r].Authorization) => Refused401(r, "invalid token")
            /\ (/\ Checked(r) /\ chain[r].check.err = NoErr
                /\ ~chain[r].check.exists) => Refused401(r, "user not found")

C13_Witness ==
    \E r \in Reqs :
        /\ pc[r] = "done" /\ mw.authStrategy = "Bearer"
        /\ Checked(r) /\ chain[r].check.err = NoErr /\ ~chain[r].check.exists
        /\ Refused401(r, "user not found")

\* the step in which the authentication middleware runs for r, having called
\* tokenCheckFunc
AuthStepChecked(r) ==
    pc[r] = "auth" /\ pc'[r] # "auth" /\ chain'[r].tokens # <<>>

\* C14: when the token is extracted and tokenCheckFunc returns found=true,
\* attributes and no error, the middleware leaves every attribute in the
\* attribute store under its key, whatever the key held before; it does not
\* abort, leaves the (empty) error list as it is, and the next stage runs.
C14_AuthSuccess ==
    [][\A r \in Reqs :
          (/\ AuthStepChecked(r)
           /\ chain'[r].check.err = NoErr /\ chain'[r].check.exists) =>
              /\ \A k \in DOMAIN chain'[r].check.data :
                    /\ k \in DOMAIN ctx'[r].Keys
                    /\ ctx'[r].Keys[k] = chain'[r].check.data[k]
              /\ ~ctx'[r].aborted
              /\ ctx'[r].Errors = ctx[r].Errors /\ ctx'[r].Errors = <<>>
              /\ pc'[r] = "perm" /\ "perm" \in chain'[r].ran]_vars

C14_Witness ==
    \E r \in Reqs :
        /\ pc[r] = "perm" /\ Checked(r)
        /\ chain[r].check.err = NoErr /\ chain[r].check.exists
        /\ DOMAIN ctx[r].Keys = {"role", "trace", "user_id"}
        /\ ctx[r].Keys["role"] = AttrValue("string", "admin")
        /\ ctx[r].Keys["user_id"] = AttrValue("string", "123")

\* C15: when tokenCheckFunc returns an error, the middleware appends that
\* very error to the error list and aborts, whatever the found flag is, and
\* the attribute store is left as it was.
C15_CheckErrorVerbatim ==
    [][\A r \in Reqs :
          (AuthStepChecked(r) /\ chain'[r].check.err # NoErr) =>
              /\ ctx'[r].Errors =
                    Append(ctx[r].Errors, ErrEntry(chain'[r].check.err, FALSE))
              /\ ctx'[r].aborted
              /\ ctx'[r].Keys = ctx[r].Keys
              /\ pc'[r] = "returned"]_vars

C15_Witness ==
    \E r \in Reqs :
        /\ pc[r] = "done" /\ Checked(r)
        /\ chain[r].check.exists /\ chain[r].check.data # NoKeys
        /\ chain[r].check.err = ErisWrap(EOF, "context")
        /\ LastErr(r) = ErisWrap(EOF, "context")

\* the error the authentication middleware records for a strategy that
\* extractToken does not support
UnsupportedStrategyError ==
    ErisWrap(ErisErrorfArg("unsupported auth strategy:", mw.authStrategy),
             "error extracting token")

\* the middleware refused the request for the unsupported strategy, before
\* any call of tokenCheckFunc
RefusedForStrategy(r) ==
    /\ chain[r].ext.err = ErisErrorfArg("unsupported auth strategy:", mw.authStrategy)
    /\ chain[r].ext.errMsg \notin {ErrMissingToken, ErrInvalidToken}
    /\ chain[r].tokens = <<>>
    /\ ctx[r].aborted /\ chain[r].abortedBy = "auth"
    /\ ctx[r].Errors = <<ErrEntry(UnsupportedStrategyError, FALSE)>>

FatalLogged == \E i \in 1..Len(log) : log[i].sev = "fatal"

\* C17 as stated: a middleware constructed with an unsupported strategy is a
\* fatal fault at construction, and no request runs through it.
C17_StrategyFatalAtConstruction ==
    (mw.phase # "init" /\ mw.authStrategy # "Bearer") =>
        /\ mw.phase = "fatal" /\ FatalLogged
        /\ \A r \in Reqs : chain[r].ran = {}

\* C17, amended: construction is fatal for a nil tokenCheckFunc only; with a
\* tokenCheckFunc and an unsupported strategy the middleware is built without
\* any fatal record, and each request that runs through it is refused for the
\* strategy.
C17_StrategyCheckedPerRequest ==
    mw.phase # "init" =>
        /\ (mw.phase = "fatal") <=> mw.tokenCheckFuncNil
        /\ FatalLogged <=> mw.tokenCheckFuncNil
        /\ (mw.authStrategy # "Bearer" /\ ~mw.tokenCheckFuncNil) =>
              \A r \in Reqs : AuthLeft(r) => RefusedForStrategy(r)

C17_Witness ==
    \E r \in Reqs :
        /\ mw.phase = "serving" /\ mw.authStrategy = "bearer" /\ ~FatalLogged
        /\ pc[r] = "returned" /\ AuthLeft(r) /\ RefusedForStrategy(r)

\* C18: NewAuthMiddleware with a nil tokenCheckFunc calls logger.Fatalf at
\* construction; no request is handled, so none is answered or aborted for it.
C18_NilCheckFuncFatal ==
    mw.tokenCheckFuncNil =>
        /\ mw.phase = "fatal"
        /\ \E i \in 1..Len(log) :
              /\ log[i].sev = "fatal" /\ log[i].req = "startup"
              /\ log[i].tag = "tokenCheckFunc cannot be nil"
        /\ \A r \in Reqs :
              /\ pc[r] = "start" /\ chain[r] = NewChain
              /\ ctx[r].Errors = <<>> /\ ctx[r].Writer = NewWriter
              /\ panicVal[r] = NoPanic

C18_Witness == mw.tokenCheckFuncNil /\ mw.phase = "fatal" /\ Len(log) = 1

\* C19: under the Bearer strategy, for a request without Authorization
\* header or with an empty one, extraction yields no token and the failure
\* reason "missing token", never "invalid token", and tokenCheckFunc is not
\* called.
C19_EmptyHeaderIsMissing ==
    \A r \in Reqs :
        (/\ AuthLeft(r) /\ mw.authStrategy = "Bearer"
         /\ ctx[r].Authorization = <<>>) =>
            /\ chain[r].ext = [token |-> <<>>, errMsg |-> ErrMissingToken, err |-> NoErr]
            /\ chain[r].ext.errMsg # ErrInvalidToken
            /\ chain[r].tokens = <<>>
            /\ LastErr(r) = UnauthorizedError(<<ErrMissingToken>>)

C19_Witness ==
    \E r \in Reqs :
        /\ pc[r] = "returned" /\ AuthLeft(r) /\ mw.authStrategy = "Bearer"
        /\ ctx[r].Authorization = <<>>
        /\ chain[r].ext.errMsg = ErrMissingToken

\* what follows "Bearer " in the header
AfterBearer(h) == SubSeq(h, Len(Bearer) + 2, Len(h))

\* the header is "Bearer", one space, and a token without space
BearerHeader(h) ==
    /\ Len(h) > Len(Bearer)
    /\ SubSeq(h, 1, Len(Bearer) + 1) = Bearer \o <<" ">>
    /\ NoSpace(AfterBearer(h))

\* C20: under the Bearer strategy, for every header "Bearer" + one space +
\* token, token without space, extraction succeeds and yields the token as it
\* stands in the header, and tokenCheckFunc is called once with it; for the
\* header "Bearer " that token is the empty string.
C20_BearerTokenVerbatim ==
    \A r \in Reqs :
        (/\ AuthLeft(r) /\ mw.authStrategy = "Bearer"
         /\ BearerHeader(ctx[r].Authorization)) =>
            /\ chain[r].ext =
                  [token |-> AfterBearer(ctx[r].Authorization), errMsg |-> "",
                   err |-> NoErr]
            /\ chain[r].tokens = <<AfterBearer(ctx[r].Authorization)>>

C20_Witness ==
    \E r \in Reqs :
        /\ AuthLeft(r) /\ mw.authStrategy = "Bearer"
        /\ ctx[r].Authorization = Bearer \o <<" ">>
        /\ chain[r].tokens = <<<<>>>>
        /\ chain[r].check.exists /\ chain[r].check.err = NoErr
        /\ pc[r] = "perm"

\* the places of the spaces in a header
Spaces(h) == {i \in 1..Len(h) : h[i] = " "}

\* the number of parts a header has when cut at every space
NumParts(h) == Cardinality(Spaces(h)) + 1

\* what stands before the first space, the header itself without a space
SchemeOf(h) ==
    IF Spaces(h) = {} THEN h
    ELSE SubSeq(h, 1, (CHOOSE i \in Spaces(h) : \A j \in Spaces(h) : i <= j) - 1)

\* what stands after the first space
CredentialOf(h) ==
    SubSeq(h, (CHOOSE i \in Spaces(h) : \A j \in Spaces(h) : i <= j) + 1, Len(h))

BearerLetters ==
    <<{"b", "B"}, {"e", "E"}, {"a", "A"}, {"r", "R"}, {"e", "E"}, {"r", "R"}>>

\* the word bearer in any casing
IsBearerWord(s) ==
    Len(s) = Len(BearerLetters) /\ \A i \in 1..Len(s) : s[i] \in BearerLetters[i]

\* C21: under the Bearer strategy, a header that is present and has a number
\* of space-separated parts other than 2, or whose first part is not the
\* word bearer, gives the failure reason "invalid token": no token, no call
\* of tokenCheckFunc, and the request is aborted with that unauthorized error.
C21_InvalidFormat ==
    \A r \in Reqs :
        (/\ AuthLeft(r) /\ mw.authStrategy = "Bearer"
         /\ ctx[r].Authorization # <<>>
         /\ \/ NumParts(ctx[r].Authorization) # 2
            \/ ~IsBearerWord(SchemeOf(ctx[r].Authorization))) =>
            /\ chain[r].ext = [token |-> <<>>, errMsg |-> ErrInvalidToken, err |-> NoErr]
            /\ chain[r].tokens = <<>>
            /\ ctx[r].aborted /\ chain[r].abortedBy = "auth"
            /\ LastErr(r) = UnauthorizedError(<<ErrInvalidToken>>)

C21_Witness ==
    \E r \in Reqs :
        /\ pc[r] = "returned" /\ mw.authStrategy = "Bearer"
        /\ ctx[r].Authorization = Bearer \o <<" ", " ", "t">>
        /\ chain[r].ext.errMsg = ErrInvalidToken /\ ctx[r].aborted

LowerCaseBearerHeader(h) ==
    /\ NumParts(h) = 2
    /\ SchemeOf(h) = <<"b", "e", "a", "r", "e", "r">>
    /\ CredentialOf(h) # <<>>

\* tokenCheckFunc accepts the token if it is asked
Accepting(r) == Checked(r) => (chain[r].check.exists /\ chain[r].check.err = NoErr)

RoleMissing(r) == "role" \notin DOMAIN ctx[r].Keys

RoleNotString(r) ==
    "role" \in DOMAIN ctx[r].Keys /\ ctx[r].Keys["role"].type # "string"

RoleUnknown(r) ==
    /\ "role" \in DOMAIN ctx[r].Keys /\ ctx[r].Keys["role"].type = "string"
    /\ ctx[r].Keys["role"].val \notin DOMAIN PermissionMap

PermLeft(r) == "perm" \in chain[r].left

\* the permission middleware ran for a request without usable role
RoleFailure(r) ==
    PermLeft(r) /\ (RoleMissing(r) \/ RoleNotString(r) \/ RoleUnknown(r))

\* C24: when the role attribute is missing, is not a string, or names no
\* role of the permission table, the permission middleware aborts the
\* request and the guard answers with status 403.
C24_RoleFailureForbidden ==
    \A r \in Reqs :
        (pc[r] = "done" /\ RoleFailure(r)) =>
            /\ ctx[r].aborted
            /\ Len(GuardWrites(r)) = 1 /\ GuardWrites(r)[1].code = 403
            /\ ctx[r].Writer.status = 403

\* the request's role is a role of the permission table
RoleKnown(r) == ~RoleMissing(r) /\ ~RoleNotString(r) /\ ~RoleUnknown(r)

\* the permissions the table gives to the request's role
PermissionsOf(r) == PermissionMap[ctx[r].Keys["role"].val]

\* C26: for a role of the permission table without the required permission,
\* the permission middleware aborts with the forbidden error "user does not
\* have the required permission" and the guard answers 403 with that
\* message; with the permission, the middleware does not abort, records no
\* error and the handler runs.
C26_PermissionCheck ==
    \A r \in Reqs :
        (PermLeft(r) /\ RoleKnown(r)) =>
            /\ mw.requiredPermission \notin PermissionsOf(r) =>
                  /\ ctx[r].aborted /\ chain[r].abortedBy = "perm"
                  /\ ctx[r].Errors =
                        <<ErrEntry(AppError(403, <<<<"user does not have the required permission">>>>),
                                   FALSE)>>
                  /\ pc[r] = "done" =>
                        /\ GuardWrote(r, 403,
                              ErrorBody(AppError(403, <<<<"user does not have the required permission">>>>)))
                        /\ ctx[r].Writer.status = 403
            /\ mw.requiredPermission \in PermissionsOf(r) =>
                  /\ chain[r].abortedBy = "none" /\ "next" \in chain[r].ran
                  /\ pc[r] = "next" => (~ctx[r].aborted /\ ctx[r].Errors = <<>>)

C26_Witness ==
    \E r \in Reqs :
        /\ pc[r] = "done" /\ PermLeft(r) /\ mw.requiredPermission = "delete"
        /\ RoleKnown(r) /\ ctx[r].Keys["role"].val = "viewer"
        /\ ctx[r].Writer.status = 403

\* the step in which the permission middleware runs for r
PermStep(r) == pc[r] = "perm" /\ pc'[r] # "perm"

\* C27: whatever its outcome, the permission middleware leaves the attribute
\* store of the request and the permission table as they are; when it grants
\* the permission it leaves the error list and the abort flag as they are
\* too.
C27_PermissionReadOnly ==
    [][\A r \in Reqs :
          PermStep(r) =>
              /\ ctx'[r].Keys = ctx[r].Keys
              /\ mw'.permissionMap = mw.permissionMap
              /\ mw'.permissionMap = PermissionMap
              /\ (RoleKnown(r) /\ mw.requiredPermission \in PermissionsOf(r)) =>
                    /\ ctx'[r].Errors = ctx[r].Errors
                    /\ ctx'[r].aborted = ctx[r].aborted
                    /\ ctx'[r].Writer = ctx[r].Writer]_vars

C27_Witness ==
    \E r \in Reqs :
        /\ pc[r] = "next" /\ PermLeft(r) /\ mw.requiredPermission = "read"
        /\ DOMAIN ctx[r].Keys = {"role", "trace", "user_id"}
        /\ ctx[r].Keys["role"].val = "viewer"
        /\ mw.permissionMap = PermissionMap

\* what the caller of a request sees: the status line and the bodies written
Response(r) ==
    [status |-> ctx[r].Writer.status,
     body |-> [i \in 1..Len(Body(r)) |-> Body(r)[i].obj]]

\* C25: two requests that fail on the role, one for a missing role
\* attribute, one for a role that is not a string, one for a role unknown to
\* the permission table, in any combination, are both aborted and get the
\* same status and the same body.
C25_RoleFailuresAlike ==
    \A r \in ConcReqs : \A s \in ConcReqs :
        (pc[r] = "done" /\ pc[s] = "done" /\ RoleFailure(r) /\ RoleFailure(s)) =>
            /\ ctx[r].aborted /\ ctx[s].aborted
            /\ Len(Body(r)) = 1
            /\ Response(r) = Response(s)

C25_Witness ==
    \E r \in ConcReqs : \E s \in ConcReqs :
        /\ pc[r] = "done" /\ pc[s] = "done"
        /\ PermLeft(r) /\ PermLeft(s)
        /\ RoleMissing(r) /\ RoleUnknown(s)
        /\ Response(r) = Response(s)

\* the request takes a step
Moves(r) ==
    \/ pc'[r] # pc[r] \/ ctx'[r] # ctx[r] \/ panicVal'[r] # panicVal[r]
    \/ guard'[r] # guard[r] \/ chain'[r] # chain[r]

\* C28: with two requests in flight through the same middlewares, a step of
\* one request (a panic, its recovery and an abort included) leaves the
\* response, error list, attribute store and abort flag of the other as they
\* are, and its place in the chain too; the permission table and the
\* middleware configuration never change.
C28_RequestIsolation ==
    [][/\ \A r \in ConcReqs : \A s \in ConcReqs \ {r} :
             Moves(r) =>
                 /\ ctx'[s] = ctx[s] /\ pc'[s] = pc[s]
                 /\ panicVal'[s] = panicVal[s]
                 /\ guard'[s] = guard[s] /\ chain'[s] = chain[s]
       /\ mw' = mw]_vars

C28_Witness ==
    \E r \in ConcReqs : \E s \in ConcReqs :
        /\ r # s
        /\ pc[r] = "done" /\ Panicked(r) /\ ctx[r].Writer.status = 500
        /\ pc[s] = "next" /\ ~ctx[s].aborted /\ ctx[s].Writer = NewWriter
        /\ ctx[s].Errors = <<>>

\* the guard classified the last entry of the error list of the request
Classified(r) ==
    /\ pc[r] = "done" /\ ~Panicked(r)
    /\ ctx[r].Errors # <<>> /\ ~IsAppError(LastErr(r))

\* C30: two classifications of the same error value, in two requests and
\* after whatever earlier entries, answer with the same status and the same
\* body; the answer is the one the classifier gives for that error in a
\* fresh context.
C30_ClassificationDeterministic ==
    \A r \in ConcReqs : \A s \in ConcReqs :
        (Classified(r) /\ Classified(s) /\ LastErr(r) = LastErr(s)) =>
            /\ Len(GuardWrites(r)) = 1 /\ Len(GuardWrites(s)) = 1
            /\ GuardWrites(r)[1].code = GuardWrites(s)[1].code
            /\ GuardWrites(r)[1].obj = GuardWrites(s)[1].obj
            /\ GuardWrites(r)[1].code =
                  constructAppError(Last(ctx[r].Errors), NewContext).app.status
            /\ GuardWrites(r)[1].obj =
                  ErrorBody(constructAppError(Last(ctx[r].Errors), NewContext).app)

C30_Witness ==
    \E r \in ConcReqs : \E s \in ConcReqs :
        /\ Classified(r) /\ Classified(s)
        /\ Len(ctx[r].Errors) = 2 /\ Len(ctx[s].Errors) = 1
        /\ LastErr(r) = ErrorString(<<"database connection failed">>)
        /\ LastErr(s) = LastErr(r)
        /\ GuardWrites(r)[1].code = 500 /\ GuardWrites(s)[1].code = 500

\* handle has called ctx.Next() for the request
Entered(r) == pc[r] \in {"next", "panicking", "returned", "done", "panicked"}

\* C29: for each request the guard calls the downstream chain exactly once,
\* also after a panic or a classified error, and recovers or classifies at
\* most once; once it has returned nothing more happens for the request; and
\* when the downstream stages finish or panic, the guard returns.
C29_SinglePass ==
    /\ [](\A r \in Reqs :
            /\ guard[r].nextCalls = (IF Entered(r) THEN 1 ELSE 0)
            /\ guard[r].recovers + guard[r].classifies <= 1)
    /\ [][\A r \in Reqs : pc[r] = "done" =>
             (pc'[r] = "done" /\ ctx'[r] = ctx[r] /\ guard'[r] = guard[r])]_vars
    /\ \A r \in Reqs : <>(pc[r] = "done")

C29_Witness ==
    \E r \in Reqs :
        /\ pc[r] = "done" /\ guard[r].nextCalls = 1
        /\ guard[r].classifies = 1 /\ Len(ctx[r].Errors) = 2

(***************************************************************************)
(* The response envelope: JSONResponse and its With* methods.  The methods *)
(* have value receivers: each returns a changed copy.                      *)
(***************************************************************************)
MaxPage == 2    \* largest page number asked for
MaxLimit == 2   \* largest page size asked for
MaxTotal == 5   \* largest count of rows

\* the zero value of Pagination
ZeroPagination ==
    [TotalData |-> 0, CurrentPage |-> 0, TotalPages |-> 0,
     HasNextPage |-> FALSE, HasPrevPage |-> FALSE]

JSONResponse(message, data, errors, pagination) ==
    [Message |-> message, Data |-> data, Errors |-> errors,
     Pagination |-> pagination]

WithData(jr, data) == [jr EXCEPT !.Data = data]

WithError(jr, err) == [jr EXCEPT !.Errors = err]

\* int(math.Ceil(float64(a) / float64(b))) for b > 0: the conversions and
\* the quotient are exact for the counts of the model (below 2^53)
Ceil(a, b) == IF a % b = 0 THEN a \div b ELSE (a \div b) + 1

\* WithPagination counting full pages only: integer division
WithPagination_Truncating(jr, queryOptions, totalData) ==
    IF queryOptions.Limit <= 0 THEN jr
    ELSE LET totalPages == totalData \div queryOptions.Limit IN
         [jr EXCEPT !.Pagination =
             [TotalData |-> totalData, CurrentPage |-> queryOptions.Page,
              TotalPages |-> totalPages,
              HasNextPage |-> queryOptions.Page < totalPages,
              HasPrevPage |-> queryOptions.Page > 1]]

WithPagination(jr, queryOptions, totalData) ==
    IF queryOptions.Limit <= 0 THEN jr
    ELSE LET totalPages == Ceil(totalData, queryOptions.Limit) IN
         [jr EXCEPT !.Pagination =
             [TotalData |-> totalData, CurrentPage |-> queryOptions.Page,
              TotalPages |-> totalPages,
              HasNextPage |-> queryOptions.Page < totalPages,
              HasPrevPage |-> queryOptions.Page > 1]]

\* no request is served, no helper function called, no server constructed
InitIdle ==
    /\ pc = [r \in Reqs |-> "start"]
    /\ ctx = [r \in Reqs |-> NewContext]
    /\ panicVal = [r \in Reqs |-> NoPanic]
    /\ log = <<>>
    /\ guard = [r \in Reqs |-> NewGuard]
    /\ mw = NoAuth
    /\ chain = [r \in Reqs |-> NewChain]
    /\ call = NoCall
    /\ hs = NoServer

\* NewResponse(message)
CallNewResponse(message) ==
    /\ call.fn = "none"
    /\ call' = [fn |-> "NewResponse",
                ret |-> JSONResponse(message, "", NoErr, ZeroPagination)]
    /\ UNCHANGED <<pc, ctx, panicVal, log, guard, mw, chain, hs>>

\* jr.WithData(data) on the response the last call returned
CallWithData(data) ==
    /\ call.fn # "none"
    /\ call' = [fn |-> "WithData", jr |-> call.ret, ret |-> WithData(call.ret, data)]
    /\ UNCHANGED <<pc, ctx, panicVal, log, guard, mw, chain, hs>>

\* jr.WithError(err)
CallWithError(err) ==
    /\ call.fn # "none"
    /\ call' = [fn |-> "WithError", jr |-> call.ret, ret |-> WithError(call.ret, err)]
    /\ UNCHANGED <<pc, ctx, panicVal, log, guard, mw, chain, hs>>

\* jr.WithPagination(queryOptions, totalData)
CallWithPagination(queryOptions, totalData) ==
    /\ call.fn # "none"
    /\ call' = [fn |-> "WithPagination", jr |-> call.ret,
                queryOptions |-> queryOptions, totalData |-> totalData,
                ret |-> WithPagination(call.ret, queryOptions, totalData)]
    /\ UNCHANGED <<pc, ctx, panicVal, log, guard, mw, chain, hs>>

NextResp ==
    \/ \E message \in {<<"ok">>, <<"users", "retrieved">>} : CallNewResponse(message)
    \/ \E data \in {"", "items"} : CallWithData(data)
    \/ \E err \in {NoErr, NotFoundError(<<"user", "not", "found">>)} : CallWithError(err)
    \/ \E page \in 0..MaxPage, limit \in -1..MaxLimit, totalData \in -1..MaxTotal :
          CallWithPagination([Page |-> page, Limit |-> limit], totalData)

SpecResp == InitIdle /\ [][NextResp]_vars

\* a call of WithPagination has returned
Paginated == call.fn = "WithPagination"

\* n pages of the given size hold the rows and n - 1 pages do not
IsCeil(n, rows, size) == n * size >= rows /\ (n - 1) * size < rows

\* C31: WithPagination returns the response unchanged when Limit <= 0 (the
\* pagination of a fresh response stays zero); when Limit > 0 and
\* totalData >= 0 it sets TotalData = totalData, CurrentPage = Page,
\* TotalPages = ceil(totalData / Limit), HasNextPage = (Page < TotalPages),
\* HasPrevPage = (Page > 1) and leaves Message, Data and Errors as they were.
C31_WithPagination ==
    Paginated =>
        LET q == call.queryOptions
            p == call.ret.Pagination
        IN  /\ q.Limit <= 0 =>
                /\ call.ret = call.jr
                /\ call.jr.Pagination = ZeroPagination => p = ZeroPagination
            /\ (q.Limit > 0 /\ call.totalData >= 0) =>
                /\ p.TotalData = call.totalData
                /\ p.CurrentPage = q.Page
                /\ IsCeil(p.TotalPages, call.totalData, q.Limit)
                /\ p.HasNextPage = (q.Page < p.TotalPages)
                /\ p.HasPrevPage = (q.Page > 1)
                /\ call.ret.Message = call.jr.Message
                /\ call.ret.Data = call.jr.Data
                /\ call.ret.Errors = call.jr.Errors

\* 5 rows in pages of 2: three pages, page 2 has a page before and after it
C31_Witness ==
    /\ Paginated
    /\ call.queryOptions = [Page |-> 2, Limit |-> 2]
    /\ call.totalData = 5
    /\ call.jr.Data = "items"
    /\ call.ret.Pagination.TotalPages = 3
    /\ call.ret.Pagination.HasNextPage
    /\ call.ret.Pagination.HasPrevPage

(***************************************************************************)
(* The path parameter helpers GetPathParam[T] and GetRequiredPathParam[T]. *)
(* Parameter values are sequences of characters.                           *)
(***************************************************************************)
MaxParamLen == 2   \* characters of a path parameter value

\* the decimal digits, each at the place of its value plus one
Digits == <<"0", "1", "2", "3", "4", "5", "6", "7", "8", "9">>

IsDigit(c) == \E i \in 1..Len(Digits) : Digits[i] = c

\* the digits loop of strconv.Atoi: n = n*10 + digit, any other character
\* is a syntax error
RECURSIVE ParseDigits(_, _)
ParseDigits(s, n) ==
    IF s = <<>> THEN [n |-> n, ok |-> TRUE]
    ELSE IF ~IsDigit(Head(s)) THEN [n |-> 0, ok |-> FALSE]
    ELSE ParseDigits(Tail(s),
                     n * 10 + (CHOOSE i \in 1..Len(Digits) : Digits[i] = Head(s)) - 1)

\* strconv.Atoi: an optional sign and at least one digit; 0 with the error
Atoi(s) ==
    LET signed == s # <<>> /\ Head(s) \in {"+", "-"}
        digits == IF signed THEN Tail(s) ELSE s
        u == IF digits = <<>> THEN [n |-> 0, ok |-> FALSE] ELSE ParseDigits(digits, 0)
    IN  [n |-> IF signed /\ Head(s) = "-" THEN 0 - u.n ELSE u.n, ok |-> u.ok]

\* the words strconv.ParseBool accepts
TrueWords ==
    {<<"1">>, <<"t">>, <<"T">>, <<"T", "R", "U", "E">>, <<"t", "r", "u", "e">>,
     <<"T", "r", "u", "e">>}

FalseWords ==
    {<<"0">>, <<"f">>, <<"F">>, <<"F", "A", "L", "S", "E">>,
     <<"f", "a", "l", "s", "e">>, <<"F", "a", "l", "s", "e">>}

\* the zero value of T
Zero(T) == CASE T = "string" -> <<>> [] T = "int" -> 0 [] T = "bool" -> FALSE

\* the error ezutil.Parse[T] returns for a value it cannot parse
ParseError(T, value) == [kind |-> "parse error", type |-> T, value |-> value]

\* ezutil.Parse[T](value): the string itself, strconv.Atoi or
\* strconv.ParseBool; the zero value with the error
Parse(T, value) ==
    CASE T = "string" -> [val |-> value, err |-> NoErr]
      [] T = "int" ->
            IF Atoi(value).ok THEN [val |-> Atoi(value).n, err |-> NoErr]
            ELSE [val |-> Zero(T), err |-> ParseError(T, value)]
      [] T = "bool" ->
            IF value \in TrueWords THEN [val |-> TRUE, err |-> NoErr]
            ELSE IF value \in FalseWords THEN [val |-> FALSE, err |-> NoErr]
            ELSE [val |-> Zero(T), err |-> ParseError(T, value)]

\* gin.Params.Get(key): the value of the first entry with that key
RECURSIVE ParamsGet(_, _)
ParamsGet(params, key) ==
    IF params = <<>> THEN [value |-> <<>>, exists |-> FALSE]
    ELSE IF Head(params).Key = key THEN [value |-> Head(params).Value, exists |-> TRUE]
    ELSE ParamsGet(Tail(params), key)

\* GetPathParam reporting a parameter it could not parse as present
GetPathParam_PresentOnError(T, params, key) ==
    LET p == ParamsGet(params, key) IN
    IF ~p.exists THEN [value |-> Zero(T), exists |-> FALSE, err |-> NoErr]
    ELSE [value |-> Parse(T, p.value).val, exists |-> TRUE, err |-> Parse(T, p.value).err]

GetPathParam(T, params, key) ==
    LET p == ParamsGet(params, key) IN
    IF ~p.exists THEN [value |-> Zero(T), exists |-> FALSE, err |-> NoErr]
    ELSE IF Parse(T, p.value).err # NoErr
         THEN [value |-> Zero(T), exists |-> FALSE, err |-> Parse(T, p.value).err]
         ELSE [value |-> Parse(T, p.value).val, exists |-> TRUE, err |-> NoErr]

\* the text of the error is "missing path param: " and the key
GetRequiredPathParam(T, params, key) ==
    LET p == ParamsGet(params, key) IN
    IF ~p.exists
    THEN [value |-> Zero(T), err |-> ErisErrorfArg("missing path param", key)]
    ELSE [value |-> Parse(T, p.value).val, err |-> Parse(T, p.value).err]

RECURSIVE ParamValues(_)
ParamValues(n) ==
    IF n = 0 THEN {<<>>}
    ELSE ParamValues(n - 1)
         \cup {Append(v, ch) : v \in {u \in ParamValues(n - 1) : Len(u) = n - 1},
                               ch \in {"0", "1", "-", "t"}}

\* the gin.Params of a request: no parameter, one, or two of which the first
\* with the key counts
ParamLists ==
    {<<>>}
    \cup {<<[Key |-> k, Value |-> v]>> : k \in {"id", "active"},
              v \in ParamValues(MaxParamLen) \cup {<<"t", "r", "u", "e">>}}
    \cup {<<[Key |-> k1, Value |-> v1], [Key |-> k2, Value |-> v2]>> :
              k1 \in {"id", "active"}, k2 \in {"id", "active"},
              v1 \in {<<"1">>, <<"t">>}, v2 \in {<<"1">>, <<"t">>}}

\* GetPathParam[T](ctx, key)
CallGetPathParam(T, params, key) ==
    /\ call.fn = "none"
    /\ call' = [fn |-> "GetPathParam", T |-> T, Params |-> params, key |-> key,
                ret |-> GetPathParam(T, params, key)]
    /\ UNCHANGED <<pc, ctx, panicVal, log, guard, mw, chain, hs>>

\* GetRequiredPathParam[T](ctx, key)
CallGetRequiredPathParam(T, params, key) ==
    /\ call.fn = "none"
    /\ call' = [fn |-> "GetRequiredPathParam", T |-> T, Params |-> params,
                key |-> key, ret |-> GetRequiredPathParam(T, params, key)]
    /\ UNCHANGED <<pc, ctx, panicVal, log, guard, mw, chain, hs>>

NextParam ==
    \E T \in {"string", "int", "bool"}, params \in ParamLists,
       key \in {"id", "active", "missing"} :
        \/ CallGetPathParam(T, params, key)
        \/ CallGetRequiredPathParam(T, params, key)

SpecParam == InitIdle /\ [][NextParam]_vars

\* the entries of the parameter list with the key asked for
Matching == SelectSeq(call.Params, LAMBDA p : p.Key = call.key)

Absent == Matching = <<>>

\* the value the helpers look at: that of the first matching entry
Given == Matching[1].Value

\* the characters of s after its sign
Unsigned(s) == IF s # <<>> /\ s[1] \in {"+", "-"} THEN SubSeq(s, 2, Len(s)) ELSE s

IsNumeral(s) ==
    /\ Unsigned(s) # <<>>
    /\ \A i \in 1..Len(Unsigned(s)) : IsDigit(Unsigned(s)[i])

\* 10 to the power n
RECURSIVE Pow10(_)
Pow10(n) == IF n = 0 THEN 1 ELSE 10 * Pow10(n - 1)

\* the sum of digit * 10^position over the digits of u, from position i on
RECURSIVE Magnitude(_, _)
Magnitude(u, i) ==
    IF i > Len(u) THEN 0
    ELSE ((CHOOSE d \in 0..9 : Digits[d + 1] = u[i]) * Pow10(Len(u) - i))
         + Magnitude(u, i + 1)

NumeralValue(s) ==
    IF s[1] = "-" THEN 0 - Magnitude(Unsigned(s), 1) ELSE Magnitude(Unsigned(s), 1)

Parsable(T, s) ==
    CASE T = "string" -> TRUE
      [] T = "int" -> IsNumeral(s)
      [] T = "bool" -> s \in TrueWords \cup FalseWords

\* the value of type T that s denotes
Denoted(T, s) ==
    CASE T = "string" -> s
      [] T = "int" -> NumeralValue(s)
      [] T = "bool" -> s \in TrueWords

\* C33: GetPathParam has three outcomes: parameter absent -> (zero, false,
\* no error); present but unparsable -> (zero, false, error); present and
\* parsable -> (value, true, no error).  GetRequiredPathParam differs only
\* in that an absent parameter yields an error containing "missing path
\* param".
C33_PathParamOutcomes ==
    /\ call.fn = "GetPathParam" =>
          IF Absent
          THEN call.ret = [value |-> Zero(call.T), exists |-> FALSE, err |-> NoErr]
          ELSE IF ~Parsable(call.T, Given)
          THEN /\ call.ret.value = Zero(call.T)
               /\ ~call.ret.exists
               /\ call.ret.err # NoErr
          ELSE call.ret = [value |-> Denoted(call.T, Given), exists |-> TRUE,
                           err |-> NoErr]
    /\ call.fn = "GetRequiredPathParam" =>
          IF Absent
          THEN /\ call.ret.value = Zero(call.T)
               /\ call.ret.err # NoErr
               /\ Contains(ErrorText(call.ret.err), "missing path param")
          ELSE IF ~Parsable(call.T, Given)
          THEN /\ call.ret.value = Zero(call.T)
               /\ call.ret.err # NoErr
          ELSE call.ret = [value |-> Denoted(call.T, Given), err |-> NoErr]

\* "t" asked for as an int: present, not a number
C33_Witness ==
    /\ call.fn = "GetPathParam"
    /\ call.T = "int"
    /\ ~Absent
    /\ Given = <<"t">>
    /\ ~call.ret.exists
    /\ call.ret.err # NoErr

(***************************************************************************)
(* The logging middleware of NewLoggingMiddleware in front of a handler.   *)
(* The duration and the client address of the record are left out.         *)
(***************************************************************************)
\* path, or path + "?" + rawQuery
fullPath(c) == IF c.RawQuery # "" THEN <<c.Path, "?", c.RawQuery>> ELSE <<c.Path>>

\* ctx.Errors.String(): "Error #nn: " and the text of each entry, with its
\* Meta if it has one; empty for the empty list
RECURSIVE ErrorsString(_)
ErrorsString(errors) ==
    IF errors = <<>> THEN <<>>
    ELSE <<"Error #">> \o ErrorText(Head(errors).Err)
         \o (IF Head(errors).Meta THEN <<"Meta">> ELSE <<>>)
         \o ErrorsString(Tail(errors))

\* logger.Errorf / logger.Infof("[HTTP] method=%s path=%s status=%d ...")
LogHTTP(sev, c, errorMsg) ==
    [sev |-> sev, tag |-> "[HTTP]", method |-> c.Method, path |-> fullPath(c),
     status |-> c.Writer.status, error |-> errorMsg]

\* the logging middleware taking server errors only for errors
loggingAfterNext_ServerErrorsOnly(c) ==
    IF c.Method = "OPTIONS" THEN <<>>
    ELSE IF c.Writer.status >= 500
    THEN <<LogHTTP("error", c, IF Len(c.Errors) > 0 THEN ErrorsString(c.Errors) ELSE <<>>)>>
    ELSE <<LogHTTP("info", c, <<>>)>>

\* the logging middleware after ctx.Next() has returned: the records it
\* writes
loggingAfterNext(c) ==
    IF c.Method = "OPTIONS" THEN <<>>
    ELSE IF c.Writer.status >= 400
    THEN <<LogHTTP("error", c, IF Len(c.Errors) > 0 THEN ErrorsString(c.Errors) ELSE <<>>)>>
    ELSE <<LogHTTP("info", c, <<>>)>>

LogRequests ==
    {[NewContext EXCEPT !.Method = m, !.Path = "/api/users", !.RawQuery = q] :
        m \in {"GET", "POST", "OPTIONS"}, q \in {"", "include=profile"}}

\* a router with the logging middleware alone in front of the handlers
InitLog ==
    /\ pc = [r \in Reqs |-> "log"]
    /\ ctx \in [Reqs -> LogRequests]
    /\ panicVal = [r \in Reqs |-> NoPanic]
    /\ log = <<>>
    /\ guard = [r \in Reqs |-> NewGuard]
    /\ mw = [NoAuth EXCEPT !.stages = <<"log", "next">>]
    /\ chain = [r \in Reqs |-> [NewChain EXCEPT !.ran = {"log"}]]
    /\ call = NoCall
    /\ hs = NoServer

\* the logging middleware is entered and calls ctx.Next()
LoggingMiddleware(r) ==
    /\ pc[r] = "log"
    /\ pc' = [pc EXCEPT ![r] = StageAfter(ctx[r], "log")]
    /\ chain' = [chain EXCEPT ![r] = Enter(@, StageAfter(ctx[r], "log"))]
    /\ UNCHANGED <<ctx, panicVal, log, guard, mw, call, hs>>

\* the handler sets the status without writing: ctx.Status(code)
HandlerStatus(r, code) ==
    /\ pc[r] = "next"
    /\ ~ctx[r].Writer.written
    /\ ctx[r].Writer.status # code
    /\ ctx' = [ctx EXCEPT ![r].Writer.status = code]
    /\ UNCHANGED <<pc, panicVal, log, guard, mw, chain, call, hs>>

\* the logging middleware, from the return of ctx.Next() to its own return
LoggingAfterNext(r) ==
    /\ pc[r] = "returned"
    /\ log' = log \o Stamp(r, loggingAfterNext(ctx[r]))
    /\ pc' = [pc EXCEPT ![r] = "done"]
    /\ chain' = [chain EXCEPT ![r].left = @ \cup {"log"}]
    /\ UNCHANGED <<ctx, panicVal, guard, mw, call, hs>>

\* a panic of the handler unwinds through the logging middleware, which
\* defers nothing
LoggingUnwinds(r) ==
    /\ pc[r] = "panicking"
    /\ pc' = [pc EXCEPT ![r] = "panicked"]
    /\ UNCHANGED <<ctx, panicVal, log, guard, mw, chain, call, hs>>

NextLog ==
    \E r \in Reqs :
        \/ LoggingMiddleware(r)
        \/ \E code \in {201, 399, 400, 500} : HandlerStatus(r, code)
        \/ \E code \in HandlerStatuses : HandlerJSON(r, code)
        \/ \E entry \in ConcEntries : HandlerError(r, entry)
        \/ HandlerAbort(r)
        \/ \E v \in ConcPanics : HandlerPanic(r, v)
        \/ HandlerReturn(r)
        \/ LoggingAfterNext(r)
        \/ LoggingUnwinds(r)

SpecLog == InitLog /\ [][NextLog]_vars

\* the goroutine of the request keeps running once the handlers returned
SpecLogLive == SpecLog /\ WF_vars(\E r \in Reqs : LoggingAfterNext(r))

HTTPLogs(r) == SelectSeq(LogsOf(r), LAMBDA l : l.tag = "[HTTP]")

\* what the log has to say of a request that went through the logging
\* middleware
LoggedRight(r) ==
    IF ctx[r].Method = "OPTIONS" THEN LogsOf(r) = <<>>
    ELSE /\ Len(LogsOf(r)) = 1
         /\ Len(HTTPLogs(r)) = 1
         /\ LET l == HTTPLogs(r)[1] IN
             /\ l.status = ctx[r].Writer.status
             /\ l.sev = IF ctx[r].Writer.status >= 400 THEN "error" ELSE "info"
             /\ l.sev = "info" => l.error = <<>>
             /\ l.sev = "error" =>
                   /\ (ctx[r].Errors = <<>>) = (l.error = <<>>)
                   /\ \A i \in 1..Len(ctx[r].Errors) :
                         \A j \in 1..Len(ErrorText(ctx[r].Errors[i].Err)) :
                             Contains(l.error, ErrorText(ctx[r].Errors[i].Err)[j])

SpecAuthLive == SpecAuth /\ WF_vars(GuardStep)

\* the authentication or the permission middleware aborted the request
AbortedByChain(r) == chain[r].abortedBy \in {"auth", "perm"}

\* the step in which one of the two middlewares aborts the request
ChainAborts(r) == chain[r].abortedBy = "none" /\ chain'[r].abortedBy # "none"

\* C34: with the guard outermost, every request the authenticator or the
\* authorizer aborts eventually receives exactly one error response, with a
\* status >= 400 and written by the guard; the abort appends exactly one
\* entry to the error list and leaves the attribute store as it was.
C34_AbortAnswered ==
    /\ [][\A r \in Reqs : ChainAborts(r) =>
             /\ Len(ctx'[r].Errors) = Len(ctx[r].Errors) + 1
             /\ SubSeq(ctx'[r].Errors, 1, Len(ctx[r].Errors)) = ctx[r].Errors
             /\ ctx'[r].Keys = ctx[r].Keys
             /\ ctx'[r].aborted]_vars
    /\ [](\A r \in Reqs : AbortedByChain(r) =>
             /\ HandlerWrites(r) = <<>>
             /\ Len(GuardWrites(r)) <= 1
             /\ pc[r] = "done" =>
                   /\ Len(GuardWrites(r)) = 1
                   /\ ctx[r].Writer.written
                   /\ ctx[r].Writer.status >= 400
                   /\ ctx[r].Writer.status = GuardWrites(r)[1].code)
    /\ \A r \in Reqs :
          AbortedByChain(r) ~> (pc[r] = "done" /\ Len(GuardWrites(r)) = 1)

\* a viewer asking for what takes the delete permission: aborted by the
\* permission middleware with the attributes of the user set, answered 403
C34_Witness ==
    \E r \in Reqs :
        /\ pc[r] = "done"
        /\ chain[r].abortedBy = "perm"
        /\ "user_id" \in DOMAIN ctx[r].Keys
        /\ Len(ctx[r].Errors) = 1
        /\ Len(GuardWrites(r)) = 1
        /\ ctx[r].Writer.status = 403

\* a header tokenCheckFunc can be called for: the word bearer, one space and
\* a credential without space, which may be empty
WellFormed(h) ==
    /\ NumParts(h) = 2
    /\ IsBearerWord(SchemeOf(h))

\* C35: tokenCheckFunc is called at most once per request and only after
\* the token has been extracted: never under an unsupported strategy, nor
\* when the header is missing or malformed.
C35_CheckAtMostOnce ==
    /\ [](\A r \in Reqs :
            /\ Len(chain[r].tokens) <= 1
            /\ chain[r].tokens # <<>> =>
                  /\ Extracted(r)
                  /\ mw.authStrategy = "Bearer"
                  /\ ctx[r].Authorization # <<>>
                  /\ WellFormed(ctx[r].Authorization)
                  /\ chain[r].tokens[1] = CredentialOf(ctx[r].Authorization))
    /\ [][\A r \in Reqs :
             chain'[r].tokens # chain[r].tokens => (pc[r] = "auth" /\ pc'[r] # "auth")]_vars

\* tokenCheckFunc was called once and the request went on to its end
C35_Witness ==
    \E r \in Reqs :
        /\ pc[r] = "done"
        /\ Len(chain[r].tokens) = 1
        /\ chain[r].check.exists
        /\ "next" \in chain[r].left

\* the records the classifier writes for an error it does not know
ClassifierTags ==
    {"UNWRAPPED ERROR DETECTED", "Error type", "Error message", "Error metadata",
     "Unhandled eris-wrapped error of type", "eris.ToString"}

\* C36: when a downstream stage records errors and then panics, the error
\* list is not consulted: the outcome is that of the panic (the masked 500
\* if nothing was written, no write by the guard otherwise), the classifier
\* is not run and the error list stays as recorded.
C36_PanicIgnoresErrors ==
    /\ [](\A r \in Reqs :
            (pc[r] = "done" /\ Panicked(r) /\ ctx[r].Errors # <<>>) =>
                /\ guard[r].classifies = 0
                /\ LogTags(r) \cap ClassifierTags = {}
                /\ IF HandlerWrites(r) = <<>>
                   THEN /\ Body(r) = <<[by |-> "guard", code |-> 500,
                                        obj |-> MaskedBody, late |-> FALSE]>>
                        /\ ctx[r].Writer.status = 500
                   ELSE /\ GuardWrites(r) = <<>>
                        /\ ctx[r].Writer.status = HandlerWrites(r)[1].code)
    /\ [][\A r \in Reqs :
             pc[r] = "panicking" => ctx'[r].Errors = ctx[r].Errors]_vars

\* a not-found error recorded, then a panic with nothing written
C36_Witness ==
    \E r \in Reqs :
        /\ pc[r] = "done" /\ Panicked(r)
        /\ Len(ctx[r].Errors) = 1
        /\ IsAppError(LastErr(r)) /\ LastErr(r).status = 404
        /\ HandlerWrites(r) = <<>>
        /\ ctx[r].Writer.status = 500

(***************************************************************************)
(* A handler wrapped by WrapHandler behind the error middleware.           *)
(***************************************************************************)
\* WrapHandler writing the error as a response of its own as well
WrapHandler_AnswersErrors(c, statusCode, message, response, err) ==
    IF err # NoErr
    THEN [CtxError(c, err) EXCEPT !.Writer =
             WriteJSON(@, statusCode, NewErrorResponse(err), "handler")]
    ELSE [c EXCEPT !.Writer =
             WriteJSON(@, statusCode, NewResponse(message, response), "handler")]

\* the function WrapHandler returns, given what handler(ctx) returned
WrapHandler(c, statusCode, message, response, err) ==
    IF err # NoErr
    THEN CtxError(c, err)
    ELSE [c EXCEPT !.Writer =
             WriteJSON(@, statusCode, NewResponse(message, response), "handler")]

\* what the wrapped handlers return: (statusCode, message, response, err)
HandlerResults ==
    [statusCode : {0, 200, 201}, message : {<<>>, <<"created">>},
     response : {"", "data"}, err : {NoErr} \cup Errs]

\* the wrapped handler runs and returns res, and the function of WrapHandler
\* returns after it
WrappedHandler(r, res) ==
    /\ pc[r] = "next"
    /\ res.err = NoErr => res.statusCode # 0
    /\ ctx' = [ctx EXCEPT ![r] =
                  WrapHandler(@, res.statusCode, res.message, res.response, res.err)]
    /\ call' = [fn |-> "WrapHandler"] @@ res
    /\ pc' = [pc EXCEPT ![r] = "returned"]
    /\ chain' = [chain EXCEPT ![r].left = @ \cup {"next"}]
    /\ UNCHANGED <<panicVal, log, guard, mw, hs>>

NextWrap ==
    \E r \in Reqs :
        \/ Handle(r)
        \/ \E res \in HandlerResults : WrappedHandler(r, res)
        \/ \E v \in ConcPanics : HandlerPanic(r, v)
        \/ HandleAfterNext(r)
        \/ HandleDeferred(r)

SpecWrap == Init /\ [][NextWrap]_vars

\* the step of the wrapped handler
Wrapped(r) == pc[r] = "next" /\ pc'[r] = "returned"

\* C37: a handler wrapped by WrapHandler does exactly one of two things: if
\* the handler returned an error it appends exactly that error to the error
\* list and writes no response; otherwise it writes one JSON response with
\* the returned status, message and data and appends nothing.  Behind the
\* guard such a request gets exactly one response.
C37_WrapHandlerEitherOr ==
    /\ [][\A r \in Reqs : Wrapped(r) =>
             IF call'.err # NoErr
             THEN /\ ctx'[r].Errors = Append(ctx[r].Errors, ErrEntry(call'.err, FALSE))
                  /\ ctx'[r].Writer = ctx[r].Writer
             ELSE /\ ctx'[r].Errors = ctx[r].Errors
                  /\ ctx'[r].Writer.written
                  /\ ctx'[r].Writer.status = call'.statusCode
                  /\ ctx'[r].Writer.body =
                        <<[by |-> "handler", code |-> call'.statusCode,
                           obj |-> [Message |-> call'.message,
                                    Data |-> call'.response, Errors |-> NoErr],
                           late |-> FALSE]>>]_vars
    /\ [](\A r \in Reqs : pc[r] = "done" =>
             /\ Len(Body(r)) = 1
             /\ ~Body(r)[1].late
             /\ (~Panicked(r) /\ call.err = NoErr) => Body(r)[1].by = "handler"
             /\ (~Panicked(r) /\ call.err # NoErr) => Body(r)[1].by = "guard")

\* the handler returned a not-found error with a status of its own, and the
\* guard answered 404
C37_Witness ==
    \E r \in Reqs :
        /\ pc[r] = "done"
        /\ call.fn = "WrapHandler"
        /\ IsAppError(call.err) /\ call.err.status = 404
        /\ call.statusCode = 200
        /\ ctx[r].Errors = <<ErrEntry(call.err, FALSE)>>
        /\ Len(GuardWrites(r)) = 1
        /\ ctx[r].Writer.status = 404

(***************************************************************************)
(* The HttpServer: NewHttpServer and the two goroutines of ServeGracefully *)
(* A fatal log call ends the process; so does a panic nobody recovers.     *)
(***************************************************************************)
LogAt(sev, tag) == [req |-> "server", sev |-> sev, tag |-> tag]

\* NewHttpServer: what is logged, and the server or the end of the process
newHttpServer(srvNil, timeout, loggerNil, shutdownFunc) ==
    IF srvNil THEN [built |-> FALSE, logs |-> <<LogAt("fatal", "http.Server cannot be nil")>>]
    ELSE IF timeout <= 0
    THEN [built |-> FALSE, logs |-> <<LogAt("fatal", "timeout must be > 0")>>]
    ELSE IF loggerNil
    THEN [built |-> FALSE, logs |-> <<LogAt("fatal", "logger cannot be nil")>>]
    ELSE [built |-> TRUE,
          logs |-> IF shutdownFunc = "nil"
                   THEN <<LogAt("warn", "shutdownFunc is nil, continuing...")>>
                   ELSE <<>>]

\* NewHttpServer(srv, timeout, logger, shutdownFunc) at startup; timeouts
\* are in seconds, shutdownFunc is nil, a function that returns nil or one
\* that returns an error
NewHttpServer(srvNil, timeout, loggerNil, shutdownFunc) ==
    /\ hs = NoServer
    /\ LET eff == newHttpServer(srvNil, timeout, loggerNil, shutdownFunc) IN
        /\ hs' = [main |-> IF eff.built THEN "built" ELSE "exited",
                  listener |-> "none",
                  process |-> IF eff.built THEN "running" ELSE "exited",
                  timeout |-> timeout, shutdownFunc |-> shutdownFunc,
                  signal |-> FALSE, srvClosed |-> FALSE, shutdownErr |-> FALSE,
                  shutdownCalls |-> 0]
        /\ log' = log \o eff.logs
    /\ UNCHANGED <<pc, ctx, panicVal, guard, mw, chain, call>>

Running == hs.main # "none" /\ hs.process = "running"

\* ServeGracefully starts the listener goroutine, registers for the signals
\* and waits on the exit channel
ServeGracefully ==
    /\ Running /\ hs.main = "built"
    /\ hs' = [hs EXCEPT !.main = "waiting", !.listener = "starting"]
    /\ UNCHANGED <<pc, ctx, panicVal, log, guard, mw, chain, call>>

\* the goroutine logs the address and calls ListenAndServe
ListenerStarts ==
    /\ Running /\ hs.listener = "starting"
    /\ hs' = [hs EXCEPT !.listener = "listening"]
    /\ log' = Append(log, LogAt("info", "starting server on"))
    /\ UNCHANGED <<pc, ctx, panicVal, guard, mw, chain, call>>

\* ListenAndServe returns an error other than ErrServerClosed: Fatalf
ListenFails ==
    /\ Running /\ hs.listener = "listening" /\ ~hs.srvClosed
    /\ hs' = [hs EXCEPT !.listener = "failed", !.process = "exited"]
    /\ log' = Append(log, LogAt("fatal", "error server listen and serve"))
    /\ UNCHANGED <<pc, ctx, panicVal, guard, mw, chain, call>>

\* ListenAndServe returns ErrServerClosed once Shutdown was called
ListenerClosed ==
    /\ Running /\ hs.listener = "listening" /\ hs.srvClosed
    /\ hs' = [hs EXCEPT !.listener = "closed"]
    /\ UNCHANGED <<pc, ctx, panicVal, log, guard, mw, chain, call>>

\* os.Interrupt or SIGTERM is delivered to the exit channel
Signal ==
    /\ Running /\ hs.main = "waiting" /\ ~hs.signal
    /\ hs' = [hs EXCEPT !.signal = TRUE]
    /\ UNCHANGED <<pc, ctx, panicVal, log, guard, mw, chain, call>>

\* <-exit returns
ReceiveExit ==
    /\ Running /\ hs.main = "waiting" /\ hs.signal
    /\ hs' = [hs EXCEPT !.main = "shutting down"]
    /\ log' = Append(log, LogAt("info", "shutting down server..."))
    /\ UNCHANGED <<pc, ctx, panicVal, guard, mw, chain, call>>

\* ServeGracefully going on after an error of srv.Shutdown, as it does with
\* a logger whose Fatalf returns
SrvShutdown_FatalReturns(failed) ==
    /\ Running /\ hs.main = "shutting down"
    /\ hs' = [hs EXCEPT !.main = "shut down", !.srvClosed = TRUE,
                        !.shutdownErr = failed]
    /\ log' = IF failed THEN Append(log, LogAt("fatal", "error shutting down"))
              ELSE log
    /\ UNCHANGED <<pc, ctx, panicVal, guard, mw, chain, call>>

\* hs.srv.Shutdown(ctx) returns: nil, or an error (the timeout ran out) and
\* Fatalf
SrvShutdown(failed) ==
    /\ Running /\ hs.main = "shutting down"
    /\ hs' = [hs EXCEPT !.main = IF failed THEN "exited" ELSE "shut down",
                        !.process = IF failed THEN "exited" ELSE "running",
                        !.srvClosed = TRUE, !.shutdownErr = failed]
    /\ log' = IF failed THEN Append(log, LogAt("fatal", "error shutting down"))
              ELSE log
    /\ UNCHANGED <<pc, ctx, panicVal, guard, mw, chain, call>>

\* hs.shutdownFunc(): the call of a nil function panics, and nothing in the
\* process recovers the panic
CallShutdownFunc ==
    /\ Running /\ hs.main = "shut down"
    /\ hs' = CASE hs.shutdownFunc = "nil" ->
                    [hs EXCEPT !.main = "panicked", !.process = "crashed"]
               [] OTHER ->
                    [hs EXCEPT !.main = "resources terminated",
                               !.shutdownCalls = @ + 1]
    /\ log' = IF hs.shutdownFunc = "returns error"
              THEN Append(log, LogAt("error", "error in terminating resources"))
              ELSE log
    /\ UNCHANGED <<pc, ctx, panicVal, guard, mw, chain, call>>

\* the last statement of ServeGracefully
ServeReturns ==
    /\ Running /\ hs.main = "resources terminated"
    /\ hs' = [hs EXCEPT !.main = "returned"]
    /\ log' = Append(log, LogAt("info", "server successfully shutdown"))
    /\ UNCHANGED <<pc, ctx, panicVal, guard, mw, chain, call>>

NextServe ==
    \/ \E srvNil \in BOOLEAN, timeout \in {0 - 1, 0, 5, 30}, loggerNil \in BOOLEAN,
          shutdownFunc \in {"nil", "returns nil", "returns error"} :
          NewHttpServer(srvNil, timeout, loggerNil, shutdownFunc)
    \/ ServeGracefully
    \/ ListenerStarts
    \/ ListenFails
    \/ ListenerClosed
    \/ Signal
    \/ ReceiveExit
    \/ \E failed \in BOOLEAN : SrvShutdown(failed)
    \/ CallShutdownFunc
    \/ ServeReturns

SpecServe == InitIdle /\ [][NextServe]_vars

\* the steps of the main goroutine from the receipt of the signal on
MainStep ==
    \/ ReceiveExit
    \/ \E failed \in BOOLEAN : SrvShutdown(failed)
    \/ CallShutdownFunc
    \/ ServeReturns

\* the main goroutine keeps running
SpecServeLive == SpecServe /\ WF_vars(MainStep)

\* the last record of ServeGracefully is in the log
FinalLogged == \E i \in 1..Len(log) : log[i].tag = "server successfully shutdown"

Built == hs.main # "none"

\* C38: a server constructed with a nil shutdownFunc, which NewHttpServer
\* accepts with a warning, shuts down gracefully: after the termination
\* signal and a successful srv.Shutdown, ServeGracefully reaches its last
\* record "server successfully shutdown" and the process does not crash.
C38_NilShutdownGraceful ==
    /\ []((Built /\ hs.shutdownFunc = "nil") =>
             /\ hs.process # "crashed"
             /\ hs.process = "running" =>
                   \E i \in 1..Len(log) :
                       log[i] = LogAt("warn", "shutdownFunc is nil, continuing..."))
    /\ (hs.main = "shut down" /\ hs.shutdownFunc = "nil") ~> FinalLogged

\* C39: shutdownFunc is invoked at most once, and only after a termination
\* signal and a srv.Shutdown that returned without error; if srv.Shutdown
\* fails, a fatal record is written and shutdownFunc is never invoked; an
\* error shutdownFunc returns is logged at error severity and does not keep
\* ServeGracefully from its last record "server successfully shutdown".
C39_ShutdownFuncOrder ==
    /\ [](Built =>
            /\ hs.shutdownCalls <= 1
            /\ hs.shutdownCalls = 1 => (hs.signal /\ hs.srvClosed /\ ~hs.shutdownErr)
            /\ hs.shutdownErr =>
                  /\ log[Len(log)] = LogAt("fatal", "error shutting down")
                  /\ hs.shutdownCalls = 0
                  /\ ~FinalLogged
            /\ (hs.shutdownFunc = "returns error" /\ hs.shutdownCalls = 1) =>
                  \E i \in 1..Len(log) :
                      /\ log[i] = LogAt("error", "error in terminating resources")
                      /\ \A j \in 1..i : log[j].tag # "server successfully shutdown")
    /\ [][(Built /\ hs'.shutdownCalls > hs.shutdownCalls) =>
             (hs.main = "shut down" /\ hs.signal /\ ~hs.shutdownErr)]_vars
    /\ (Built /\ hs.shutdownCalls = 1) ~> (FinalLogged /\ hs.main = "returned")

\* shutdownFunc returned an error and ServeGracefully came to its end
C39_Witness ==
    /\ Built
    /\ hs.main = "returned"
    /\ hs.shutdownFunc = "returns error"
    /\ hs.shutdownCalls = 1
    /\ FinalLogged
    /\ \E i \in 1..Len(log) : log[i].sev = "error"

=============================================================================
